---- MODULE Spec2Model ----
(***************************************************************************)
(* Model of the manta-ray controller evolution code.                       *)
(*                                                                         *)
(* Part 1 (specification Spec): OptimizerSimulation, in its two versions   *)
(*   src/evolution_simulation.py                          ("base")         *)
(*   src/experiments/energy_velocity_experiment/                           *)
(*       evolution_simulation_correct_version.py          ("correct")      *)
(* from construction through run(): the generation loop, the batch loop    *)
(* of run_generation, the tick loop of run_episode_parallel and the        *)
(* ask/tell traffic with the outer optimizer; then get_best_individual     *)
(* and the snapshot written by finish() and read by load().                *)
(*                                                                         *)
(* Part 2 (specification SpecParam): the controller specification          *)
(* parameterizer of src/controller/parameters.py.                          *)
(*                                                                         *)
(* Part 3 (specification SpecArchive): the behaviour archive constructed   *)
(* in src/experiments/qd_v0.5_t3/exp.py and queried in                     *)
(* src/controller/rule_based.py.                                           *)
(*                                                                         *)
(* Part 4 (specification SpecEpisode): run_episode_single and its action   *)
(* scaling.                                                                *)
(*                                                                         *)
(* Part 5 (specification SpecExperiment): the resume logic of              *)
(* src/experiments/energy_velocity_experiment/energy_velocity_exp.py.      *)
(*                                                                         *)
(* Part 6 (specification SpecRule): RuleBased.select_parameters of         *)
(* src/controller/rule_based.py.                                           *)
(*                                                                         *)
(* Part 7 (specification SpecTask): the reward of MoveTask in              *)
(* src/task/move_to_target.py.                                             *)
(*                                                                         *)
(* Conventions.  Population slots, environments and generations are        *)
(* numbered from 0 as in the Python code.  A candidate returned by the     *)
(* outer optimizer's ask() is opaque to OptimizerSimulation; it is         *)
(* modelled by its identity <<generation, k>>, the k-th ask() of that      *)
(* generation.  NoCand stands for "nothing loaded / zeros".                *)
(***************************************************************************)
EXTENDS Integers, Sequences, FiniteSets, TLC

\* ------------------------------------------------------------ bounds
MaxPop   == 3      \* population_size ranges over 1..MaxPop
MaxEnvs  == 2      \* num_envs ranges over 1..MaxEnvs
MaxGen   == 2      \* num_generations ranges over 0..MaxGen
MaxTicks == 2      \* an episode reports done after at most MaxTicks ticks
Den      == 2      \* part 2: a real q is represented by the integer q * Den
MaxFailures == 2   \* failed environment constructions the model counts
MaxChunks == 2     \* write calls in which a snapshot reaches its file
MaxAct == 2        \* actuators of the action space (8 in the repository)
MaxSamples == 1    \* samples of one pre-computed trajectory
MaxConfigs == 2    \* (reward function, velocity) configurations of the script
MaxRestarts == 2   \* times the script is started again
MaxParams == 2     \* modulation parameters of a solution (8 in the repository)
MaxPos == 2        \* positions lie in -MaxPos .. MaxPos on a line
MaxRewards == 2    \* get_reward calls of one episode
MaxEpisodes == 2   \* initialize_episode calls

Rewards  == {0, 1}                 \* rewards the environments may report
Versions == {"base", "correct"}
NoCand   == <<>>
\* a zero row of self._actions: no trajectory recorded
NoTraj   == [ctrl |-> -1, cand |-> NoCand]

VARIABLES
    \* ---- OptimizerSimulation: constructor arguments
    version,                   \* which source file the object is built from
    population_size,           \* self._population_size
    num_generations,           \* self._num_generations
    num_envs,                  \* self._num_envs
    skip_inner_optimalization, \* self._skip_inner_optimalization
    record_actions,            \* self._record_actions
    \* ---- OptimizerSimulation: objects built by the constructor
    controller_specs,          \* env_id -> identity of its specification object
    controllers,               \* env_id -> specification object its CPG reads
    spec_loaded,               \* specification object -> candidate loaded in it
    \* ---- control state
    pc,                        \* position in __init__ / run / finish / load
    exc,                       \* the exception that ended the program, if any
    generation,                \* loop variable gen of run()
    agent,                     \* loop variable agent of run_generation
    outer_action,              \* candidates asked for the current batch
    counter,                   \* tick counter of run_episode_parallel
    \* ---- recorded data
    actions,                   \* self._actions[generation]: slot -> trajectory
    reward,                    \* reward returned by the last env step
    solutions,                 \* list built by run_generation
    outer_rewards,             \* self._outer_rewards
    control_actions,           \* self._control_actions
    \* ---- observation of the collaborators (history only)
    step_src,                  \* env_id -> slot whose trajectory stepped it
    driven_by,                 \* env_id -> candidate whose trajectory stepped it
    sol_origin,                \* per entry of solutions: candidate that drove
                               \*   the instance the reward came from
    ask_count,                 \* ask() calls in the current generation
    evaluated,                 \* candidates evaluated in the current generation
    tell_count,                \* generation -> number of tell() calls
    tell_evaluated,            \* generation -> value of evaluated at its tell()
    told,                      \* the list handed to the last tell()
    gen_log,                   \* generations for which run_generation started
    asked,                     \* controller -> times it was asked in the
                               \*   current episode
    write_count,               \* generation -> slot -> stores made into that
                               \*   entry of the two history arrays
    \* ---- MantaRayControllerSpecificationParameterizer and one specification
    p_state,                   \* "unused", "fresh", "ready" or "raised"
    sp,                        \* the MantaRayCpgControllerSpecification
    controller_action,         \* argument of the last parameter_space call
    \* ---- OptimizerSimulation: environment handle, queries and persistence
    gym_env,                   \* self._gym_env
    env_failures,              \* failed attempts of the constructor to build
                               \*   the environments, while it is trying
    best,                      \* value returned by get_best_individual
    file,                      \* the snapshot file experiments/{name}.pkl
    restored,                  \* the object returned by load
    io_error,                  \* the error the file system reported, if any
    \* ---- Archive (controller.quality_diversity)
    a_state,                   \* "unused" or "ready"
    max_items_per_bin,         \* capacity of a cell
    optimisation,              \* "minimization" or "maximization"
    archive,                   \* cell index -> list of the solutions it holds
    n_inserts,                 \* insert calls so far
    last_insert,               \* the last insert call: candidate, addressed
                               \*   cell, returned value
    closest,                   \* the last get_closest_solutions call: its
                               \*   arguments and its result
    \* ---- run_episode_single, the scaling of one controller's output
    e_state,                   \* "unused", "ready", "asked" or "raised"
    e_record_actions,          \* self._record_actions
    minimum,                   \* self._action_spec.minimum, per actuator
    maximum,                   \* self._action_spec.maximum, per actuator
    controller_output,         \* what self._controllers[env_id].ask returned
    episode_actions,           \* self._actions[generation, episode, :, :]
    sent,                      \* the last row handed to self._gym_env.step
    \* ---- process-level interruption of the constructor
    interrupted_at,            \* where the interruption reached the
                               \*   constructor that is building the
                               \*   environments: "none", "try" or "sleep"
    \* ---- the script energy_velocity_exp.py
    script_pc,                 \* "unused", "stopped", "check", "simulate",
                               \*   "store", "dump", "finished" or "crashed"
    cwd,                       \* working directory of the running script
    config,                    \* position in the loop over (reward function,
                               \*   velocity)
    fs,                        \* file system: path -> "none", "partial" or
                               \*   "complete"
    simulated,                 \* configuration -> times sim.run() returned
    overwritten,               \* paths opened for writing while they existed
    restarts,                  \* times the script was started again
    \* ---- RuleBased.select_parameters
    r_pc,                      \* "unused", "ready", "returned" or "raised"
    r_exc,                     \* the exception select_parameters raised
    returned,                  \* the tuple select_parameters returned
    \* ---- MoveTask (task/move_to_target.py)
    t_pc,                      \* "unused", "new", "ready", "moved",
                               \*   "rewarded" or "raised"
    task,                      \* target position, morphology position and
                               \*   self._previous_distance_to_target
    rewards,                   \* rewards returned since initialize_episode
    start_distance,            \* distance to the target when the current
                               \*   episode started
    episodes                   \* initialize_episode calls so far

simvars == << version, population_size, num_generations, num_envs,
              skip_inner_optimalization, record_actions,
              controller_specs, controllers, spec_loaded,
              pc, exc, generation, agent, outer_action, counter,
              actions, reward, solutions, outer_rewards, control_actions,
              step_src, driven_by, sol_origin, ask_count, evaluated,
              tell_count, tell_evaluated, told, gen_log, asked, write_count >>

pvars == << p_state, sp, controller_action >>

objvars == << gym_env, env_failures, best, file, restored, io_error >>

avars == << a_state, max_items_per_bin, optimisation, archive, n_inserts,
            last_insert, closest >>

evars == << e_state, e_record_actions, minimum, maximum, controller_output,
            episode_actions, sent >>

ivars == << interrupted_at >>

xvars == << script_pc, cwd, config, fs, simulated, overwritten, restarts >>

rvars == << r_pc, r_exc, returned >>

tvars == << t_pc, task, rewards, start_distance, episodes >>

restvars == << xvars, rvars, tvars >>

morevars == << evars, ivars, restvars >>

vars == << simvars, pvars, objvars, avars, morevars >>

Envs  == 0 .. (num_envs - 1)
Slots == 0 .. (population_size - 1)
Gens  == 0 .. (num_generations - 1)

\* ------------------------------------------------------------ __init__

\* correct version, line 66: assert population_size % num_envs == 0.
\* The base version has no such check.
ConstructorAccepts(v, pop, envs) == (v = "correct") => (pop % envs = 0)

\* np.zeros(shape=(..., simulation_time/control_timestep)) has a float
\* dimension, which numpy rejects with a TypeError: only the pre-compute mode
\* (skip_inner_optimalization = True) gets past the constructor.
InnerRewardsAllocated(skip) == skip

\* [default_controller_dragrace_specification() for _ in range(num_envs)]:
\* one fresh specification object per environment.
NewControllerSpecs(envs) == [e \in 0 .. (envs - 1) |-> e + 1]

\* [controller(specification=spec) for spec in self._controller_specs]
NewControllers(specs) == [e \in DOMAIN specs |-> specs[e]]

\* no specification object is modelled in detail in part 1
NoSpecification == << >>

ParamUnused ==
    /\ p_state = "unused"
    /\ sp = NoSpecification
    /\ controller_action = << >>

\* no environment handle: self._gym_env is not set
NoEnv    == [id |-> 0, config |-> "none"]
\* get_best_individual has not returned
NoBest   == << >>
\* experiments/{name}.pkl does not exist
NoFile   == [exists |-> FALSE, content |-> << >>]
\* load has returned nothing
NoObject == << >>

\* before __init__ has built anything and before any file is written
ObjNew ==
    /\ gym_env = NoEnv
    /\ env_failures = 0
    /\ best = NoBest
    /\ file = NoFile
    /\ restored = NoObject
    /\ io_error = "none"

\* no insert call has been made
NoInsert == << >>
\* no get_closest_solutions call has been made
NoResult == << >>

\* no Archive object is modelled in parts 1 and 2
ArchiveUnused ==
    /\ a_state = "unused"
    /\ max_items_per_bin = 0
    /\ optimisation = "none"
    /\ archive = << >>
    /\ n_inserts = 0
    /\ last_insert = NoInsert
    /\ closest = NoResult

\* nothing recorded and nothing sent
NoActions == << >>

\* no episode is modelled on its own in parts 1 to 3
EpisodeUnused ==
    /\ e_state = "unused"
    /\ e_record_actions = FALSE
    /\ minimum = << >>
    /\ maximum = << >>
    /\ controller_output = << >>
    /\ episode_actions = NoActions
    /\ sent = NoActions

\* no interruption has reached a constructor
NotInterrupted == interrupted_at = "none"

\* the script is not modelled in the other parts
ExperimentUnused ==
    /\ script_pc = "unused"
    /\ cwd = "none"
    /\ config = 0
    /\ fs = << >>
    /\ simulated = << >>
    /\ overwritten = {}
    /\ restarts = 0

\* select_parameters has returned nothing
NoReturn == << >>

\* no RuleBased object is modelled in the other parts
RuleUnused ==
    /\ r_pc = "unused"
    /\ r_exc = "none"
    /\ returned = NoReturn

\* no MoveTask object is modelled in the other parts
TaskUnused ==
    /\ t_pc = "unused"
    /\ task = << >>
    /\ rewards = << >>
    /\ start_distance = 0
    /\ episodes = 0

RestUnused ==
    /\ ExperimentUnused
    /\ RuleUnused
    /\ TaskUnused

MoreUnused ==
    /\ EpisodeUnused
    /\ NotInterrupted
    /\ RestUnused

Init ==
    /\ ParamUnused
    /\ ObjNew
    /\ ArchiveUnused
    /\ MoreUnused
    /\ version \in Versions
    /\ population_size \in 1 .. MaxPop
    /\ num_envs \in 1 .. MaxEnvs
    /\ num_generations \in 0 .. MaxGen
    /\ skip_inner_optimalization \in BOOLEAN
    /\ record_actions \in BOOLEAN
    /\ controller_specs = << >>
    /\ controllers = << >>
    /\ spec_loaded = << >>
    /\ pc = "new"
    /\ exc = "none"
    /\ generation = 0
    /\ agent = 0
    /\ outer_action = << >>
    /\ counter = 0
    /\ actions = << >>
    /\ reward = << >>
    /\ solutions = << >>
    /\ outer_rewards = << >>
    /\ control_actions = << >>
    /\ step_src = << >>
    /\ driven_by = << >>
    /\ sol_origin = << >>
    /\ ask_count = 0
    /\ evaluated = 0
    /\ tell_count = << >>
    /\ tell_evaluated = << >>
    /\ told = << >>
    /\ gen_log = << >>
    /\ asked = << >>
    /\ write_count = << >>

Raise(e) == pc' = "raised" /\ exc' = e

\* OptimizerSimulation.__init__ up to the controllers: the assertion of the
\* correct version, the specifications and the controllers.
Construct ==
    /\ pc = "new"
    /\ IF ~ConstructorAccepts(version, population_size, num_envs)
         THEN /\ Raise("AssertionError")
              /\ UNCHANGED << controller_specs, controllers, spec_loaded >>
         ELSE /\ controller_specs' = NewControllerSpecs(num_envs)
              /\ controllers' = NewControllers(controller_specs')
              /\ spec_loaded' = [s \in 1 .. num_envs |-> NoCand]
              /\ pc' = "make_env"
              /\ exc' = exc
    /\ UNCHANGED << morevars, avars, pvars, objvars >>
    /\ UNCHANGED << version, population_size, num_generations, num_envs,
                    skip_inner_optimalization, record_actions,
                    outer_rewards, control_actions, actions,
                    tell_count, tell_evaluated,
                    generation, agent, outer_action, counter, reward,
                    solutions, step_src, driven_by, sol_origin, ask_count,
                    evaluated, told, gen_log, asked, write_count >>

\* What the vector environment is built from:
\*   base:    Move().environment(...), the default task configuration
\*   correct: copy.deepcopy(task_config).environment(...)
EnvConfig(v) == IF v = "base" THEN "Move()" ELSE "task_config"

\* correct version: `while not succeed: try: ... except: ... time.sleep(5)`
\* wraps the construction; the base version calls it once, unguarded.
RetriesOnFailure(v) == v = "correct"

\* self._gym_env = gym.vector.AsyncVectorEnv([...]): one attempt.  Whether
\* the attempt succeeds is the collaborator's choice.  In the correct
\* version a failed attempt prints, sleeps 5 seconds and tries again; the
\* loop has no counter and no exit other than success.
CreateGymEnv ==
    /\ pc = "make_env"
    /\ \E succeed \in BOOLEAN :
          IF succeed
            THEN /\ gym_env' = [id |-> 1, config |-> EnvConfig(version)]
                 /\ env_failures' = 0
                 /\ interrupted_at' = "none"
                 /\ pc' = "allocate"
                 /\ exc' = exc
            ELSE IF RetriesOnFailure(version)
                   THEN /\ env_failures < MaxFailures
                        /\ env_failures' = env_failures + 1
                        /\ pc' = "make_env"
                        /\ UNCHANGED << gym_env, exc, interrupted_at >>
                   ELSE /\ Raise("EnvironmentError")
                        /\ UNCHANGED << gym_env, env_failures,
                                        interrupted_at >>
    /\ UNCHANGED << evars, restvars, avars, pvars, best, file, restored, io_error >>
    /\ UNCHANGED << version, population_size, num_generations, num_envs,
                    skip_inner_optimalization, record_actions,
                    controller_specs, controllers, spec_loaded,
                    outer_rewards, control_actions, actions,
                    tell_count, tell_evaluated,
                    generation, agent, outer_action, counter, reward,
                    solutions, step_src, driven_by, sol_origin, ask_count,
                    evaluated, told, gen_log, asked, write_count >>

\* except: (a bare except clause) catches every exception raised in the try
\* block, KeyboardInterrupt included
CatchesInterrupt(v) == RetriesOnFailure(v)

\* A process-level interruption (SIGINT, raised as KeyboardInterrupt in the
\* main thread) reaches the constructor while it builds the environments.
\*   base:    no handler, the exception leaves __init__
\*   correct: raised inside the try block it is caught by the bare except,
\*            counted as one more failed attempt and followed by a retry;
\*            raised during the time.sleep(5) of the handler, after a failed
\*            attempt, it leaves __init__
InterruptConstruction ==
    /\ pc = "make_env"
    /\ interrupted_at = "none"
    /\ \E place \in {"try", "sleep"} :
          /\ place = "sleep" => (RetriesOnFailure(version) /\ env_failures > 0)
          /\ interrupted_at' = place
          /\ IF place = "try" /\ CatchesInterrupt(version)
               THEN /\ env_failures < MaxFailures
                    /\ env_failures' = env_failures + 1
                    /\ pc' = "make_env"
                    /\ exc' = exc
               ELSE /\ Raise("KeyboardInterrupt")
                    /\ env_failures' = env_failures
    /\ UNCHANGED << evars, restvars, avars, pvars, gym_env, best, file, restored,
                    io_error >>
    /\ UNCHANGED << version, population_size, num_generations, num_envs,
                    skip_inner_optimalization, record_actions,
                    controller_specs, controllers, spec_loaded,
                    outer_rewards, control_actions, actions,
                    tell_count, tell_evaluated,
                    generation, agent, outer_action, counter, reward,
                    solutions, step_src, driven_by, sol_origin, ask_count,
                    evaluated, told, gen_log, asked, write_count >>

\* OptimizerSimulation.__init__ after the environments: the history arrays.
Allocate ==
    /\ pc = "allocate"
    /\ IF ~InnerRewardsAllocated(skip_inner_optimalization)
         THEN /\ Raise("TypeError")
              /\ UNCHANGED << outer_rewards, control_actions,
                              actions, tell_count, tell_evaluated,
                              write_count >>
         ELSE /\ pc' = "constructed"
              /\ exc' = exc
              /\ outer_rewards' = [g \in Gens |-> [s \in Slots |-> 0]]
              /\ control_actions' =
                    IF record_actions
                      THEN [g \in Gens |-> [s \in Slots |-> NoCand]]
                      ELSE << >>
              /\ actions' =
                    IF record_actions
                      THEN [s \in Slots |-> NoTraj]
                      ELSE << >>
              /\ tell_count' = [g \in Gens |-> 0]
              /\ write_count' = [g \in Gens |-> [s \in Slots |-> 0]]
              /\ tell_evaluated' = [g \in Gens |-> 0]
    /\ UNCHANGED << morevars, avars, pvars, objvars >>
    /\ UNCHANGED << version, population_size, num_generations, num_envs,
                    skip_inner_optimalization, record_actions,
                    controller_specs, controllers, spec_loaded,
                    generation, agent, outer_action, counter, reward,
                    solutions, step_src, driven_by, sol_origin, ask_count,
                    evaluated, told, gen_log, asked >>

\* ------------------------------------------------------------ run

\* caller: sim.run()
Run ==
    /\ pc = "constructed"
    /\ pc' = "gen_loop"
    /\ generation' = 0
    /\ UNCHANGED << morevars, avars, pvars, objvars >>
    /\ UNCHANGED << version, population_size, num_generations, num_envs,
                    skip_inner_optimalization, record_actions,
                    controller_specs, controllers, spec_loaded, exc, agent,
                    outer_action, counter, actions, reward, solutions,
                    outer_rewards, control_actions, step_src, driven_by,
                    sol_origin, ask_count, evaluated, tell_count,
                    tell_evaluated, told, gen_log, asked, write_count >>

\* A loop that also stops once the rewards of the previous generation have
\* converged (all slots report the same reward).
GenLoopStopsOnConvergence(gen, n) ==
    /\ gen < n
    /\ ~(gen > 0 /\ \A s, t \in Slots :
                       outer_rewards[gen - 1][s] = outer_rewards[gen - 1][t])

\* for gen in range(self._num_generations)
GenLoopContinues(gen, n) == gen < n

\* head of the loop of run(); entering the body starts run_generation(gen)
\* with solutions = [].
GenLoop ==
    /\ pc = "gen_loop"
    /\ IF GenLoopContinues(generation, num_generations)
         THEN /\ pc' = "batch_loop"
              /\ solutions' = << >>
              /\ sol_origin' = << >>
              /\ agent' = 0
              /\ ask_count' = 0
              /\ evaluated' = 0
              /\ gen_log' = Append(gen_log, generation)
              /\ actions' = IF record_actions
                              THEN [s \in Slots |-> NoTraj] ELSE << >>
         ELSE /\ pc' = "done"
              /\ UNCHANGED << solutions, sol_origin, agent, ask_count,
                              evaluated, gen_log, actions >>
    /\ UNCHANGED << asked, write_count >>
    /\ UNCHANGED << morevars, avars, pvars, objvars >>
    /\ UNCHANGED << version, population_size, num_generations, num_envs,
                    skip_inner_optimalization, record_actions,
                    controller_specs, controllers, spec_loaded, exc,
                    generation, outer_action, counter, reward,
                    outer_rewards, control_actions, step_src, driven_by,
                    tell_count, tell_evaluated, told >>

\* ------------------------------------------------------------ run_generation

\* A batch loop that leaves for tell() after the first batch.
BatchLoopFirstOnly(a, pop) == a < 1

\* for agent in range(0, self._population_size, self._num_envs)
BatchLoopContinues(a, pop) == a < pop

BatchLoop ==
    /\ pc = "batch_loop"
    /\ IF BatchLoopContinues(agent, population_size)
         THEN pc' = "ask" /\ outer_action' = << >>
         ELSE pc' = "tell" /\ UNCHANGED outer_action
    /\ UNCHANGED << morevars, avars, pvars, objvars >>
    /\ UNCHANGED << version, population_size, num_generations, num_envs,
                    skip_inner_optimalization, record_actions,
                    controller_specs, controllers, spec_loaded, exc,
                    generation, agent, counter, actions, reward, solutions,
                    outer_rewards, control_actions, step_src, driven_by,
                    sol_origin, ask_count, evaluated, tell_count,
                    tell_evaluated, told, gen_log, asked, write_count >>

\* outer_action = [self._outer_optimalization.ask() for _ in range(num_envs)]
AsksPerBatch(envs) == envs

\* one ask() of the list comprehension
Ask ==
    /\ pc = "ask"
    /\ Len(outer_action) < AsksPerBatch(num_envs)
    /\ outer_action' = Append(outer_action, << generation, ask_count + 1 >>)
    /\ ask_count' = ask_count + 1
    /\ pc' = IF Len(outer_action') = AsksPerBatch(num_envs)
               THEN "load" ELSE "ask"
    /\ UNCHANGED << morevars, avars, pvars, objvars >>
    /\ UNCHANGED << version, population_size, num_generations, num_envs,
                    skip_inner_optimalization, record_actions,
                    controller_specs, controllers, spec_loaded, exc,
                    generation, agent, counter, actions, reward, solutions,
                    outer_rewards, control_actions, step_src, driven_by,
                    sol_origin, evaluated, tell_count, tell_evaluated,
                    told, gen_log, asked, write_count >>

\* for env_id in range(num_envs):
\*     parameter_space(specification=self._controller_specs[env_id],
\*                     controller_action=outer_action[env_id])
\* A specification object keeps the candidate of the last env_id that
\* refers to it.
LoadedAfter(specs, loaded, cands) ==
    [s \in DOMAIN loaded |->
        LET es == {e \in DOMAIN specs : specs[e] = s}
        IN  IF es = {} THEN loaded[s]
            ELSE cands[(CHOOSE e \in es : \A f \in es : f <= e) + 1]]

LoadCandidates ==
    /\ pc = "load"
    /\ spec_loaded' = LoadedAfter(controller_specs, spec_loaded, outer_action)
    /\ pc' = "reset"
    /\ UNCHANGED << morevars, avars, pvars, objvars >>
    /\ UNCHANGED << version, population_size, num_generations, num_envs,
                    skip_inner_optimalization, record_actions,
                    controller_specs, controllers, exc, generation, agent,
                    outer_action, counter, actions, reward, solutions,
                    outer_rewards, control_actions, step_src, driven_by,
                    sol_origin, ask_count, evaluated, tell_count,
                    tell_evaluated, told, gen_log, asked, write_count >>

\* ------------------------------------------------------------ run_episode_parallel

\* done = False; obs, _ = self._gym_env.reset(); counter = 0
Reset ==
    /\ pc = "reset"
    /\ counter' = 0
    /\ asked' = [e \in Envs |-> 0]
    /\ step_src' = [e \in Envs |-> -1]
    /\ driven_by' = [e \in Envs |-> NoCand]
    /\ pc' = "tick"
    /\ UNCHANGED << morevars, avars, pvars, objvars >>
    /\ UNCHANGED << version, population_size, num_generations, num_envs,
                    skip_inner_optimalization, record_actions,
                    controller_specs, controllers, spec_loaded, exc,
                    generation, agent, outer_action, actions, reward,
                    solutions, outer_rewards, control_actions, sol_origin,
                    ask_count, evaluated, tell_count, tell_evaluated, told,
                    gen_log, write_count >>

\* the observed time read as 0 at every tick
ObservedTimeAlwaysZero(c) == c >= 0

\* obs["task/time"][0][0] == 0: the observed task time is 0 after reset() and
\* positive after every step().
ObservedTimeIsZero(c) == c = 0

\* run_episode_single, pre-compute mode: controller env_id is asked for the
\* whole trajectory, computed from the specification object it reads.
Trajectory(env_id) ==
    [ctrl |-> env_id, cand |-> spec_loaded[controllers[env_id]]]

\* env_ids whose slot episode + env_id lies past the population
BadSlots == {e \in Envs : agent + e >= population_size}

\* The controllers run_episode_single asks at the tick whose counter is c:
\* all of them while the observed time is 0, none afterwards.  The store
\* into self._actions follows the ask, so the first env_id whose store
\* raises IndexError has been asked and the later ones have not.
AskedAtTick(c) ==
    IF ~ObservedTimeIsZero(c)
      THEN {}
      ELSE IF record_actions
             THEN {e \in Envs : \A b \in BadSlots : e <= b}
             ELSE Envs

\* The for loop over env_id at the head of one tick.  run_episode_single
\* stores into self._actions[generation, episode + env_id] only when
\* record_actions is set; an index past the population raises IndexError and
\* the stores of the smaller env_ids have already happened.
TickControllers ==
    /\ pc = "tick"
    /\ asked' = [e \in Envs |->
                    IF e \in AskedAtTick(counter) THEN asked[e] + 1
                                                  ELSE asked[e]]
    /\ IF ObservedTimeIsZero(counter) /\ record_actions
         THEN LET bad == BadSlots
                  ok  == {e \in Envs : \A b \in bad : e < b}
              IN  /\ actions' =
                        [s \in DOMAIN actions |->
                            IF \E e \in ok : s = agent + e
                              THEN Trajectory(s - agent)
                              ELSE actions[s]]
                  /\ IF bad = {}
                       THEN pc' = "step" /\ exc' = exc
                       ELSE Raise("IndexError")
         ELSE /\ pc' = "step"
              /\ UNCHANGED << actions, exc >>
    /\ UNCHANGED << morevars, avars, pvars, objvars >>
    /\ UNCHANGED << version, population_size, num_generations, num_envs,
                    skip_inner_optimalization, record_actions,
                    controller_specs, controllers, spec_loaded,
                    generation, agent, outer_action, counter, reward,
                    solutions, outer_rewards, control_actions, step_src,
                    driven_by, sol_origin, ask_count, evaluated, tell_count,
                    tell_evaluated, told, gen_log, write_count >>

\* The slot of self._actions whose tick action reaches instance env_id:
\*   base:    step(self._actions[generation, episode, :, counter])
\*            one row, that of slot episode, is all the vector env receives
\*   correct: step(self._actions[generation, episode:episode+num_envs, :, counter])
\*            row env_id of the slice is slot episode + env_id
StepSlot(v, episode, env_id) ==
    IF v = "base" THEN episode ELSE episode + env_id

\* obs, reward, terminated, truncated, info = self._gym_env.step(...)
\* done = np.all(...); counter += 1.  The rewards and the end of the episode
\* are the environments' choice.
TickStep ==
    /\ pc = "step"
    /\ IF ~record_actions
         THEN /\ Raise("AttributeError")
              /\ UNCHANGED << step_src, driven_by, reward, counter >>
         ELSE /\ step_src' = [e \in Envs |-> StepSlot(version, agent, e)]
              /\ driven_by' = [e \in Envs |-> actions[step_src'[e]].cand]
              /\ reward' \in [Envs -> Rewards]
              /\ counter' = counter + 1
              /\ exc' = exc
              /\ \E done \in BOOLEAN :
                    /\ (counter' >= MaxTicks) => done
                    /\ pc' = IF done THEN "collect" ELSE "tick"
    /\ UNCHANGED << morevars, avars, pvars, objvars >>
    /\ UNCHANGED << version, population_size, num_generations, num_envs,
                    skip_inner_optimalization, record_actions,
                    controller_specs, controllers, spec_loaded,
                    generation, agent, outer_action, actions, solutions,
                    outer_rewards, control_actions, sol_origin, ask_count,
                    evaluated, tell_count, tell_evaluated, told, gen_log, asked, write_count >>

\* ------------------------------------------------------------ run_generation, continued

\* every env_id stores into the slot of the batch's first candidate
WriteSlotOfBatch(a, env_id) == a

\* self._outer_rewards[generation, agent+env_id] = ...
\* self._control_actions[generation, agent+env_id, :] = ...
WriteSlot(a, env_id) == a + env_id

\* the env_ids whose store of the for loop goes to slot s, and the one whose
\* store comes last
Writers(a, s) == {e \in Envs : WriteSlot(a, e) = s}
LastWriter(a, s) == CHOOSE e \in Writers(a, s) : \A f \in Writers(a, s) : f <= e

\* zip(outer_action, reward)
Zip(cands, rew) == [i \in 1 .. Len(cands) |-> << cands[i], rew[i - 1] >>]

\* solutions += [...zip(outer_action, reward)]
\* for env_id in range(num_envs):
\*     self._outer_rewards[generation, agent+env_id] = reward[env_id]
\*     self._control_actions[generation, agent+env_id, :] = outer_action[env_id]
Collect ==
    /\ pc = "collect"
    /\ solutions' = solutions \o Zip(outer_action, reward)
    /\ sol_origin' = sol_origin \o [i \in 1 .. num_envs |-> driven_by[i - 1]]
    /\ evaluated' = evaluated + num_envs
    /\ IF agent + num_envs <= population_size
         THEN /\ outer_rewards' =
                    [outer_rewards EXCEPT ![generation] =
                        [s \in Slots |->
                            IF Writers(agent, s) # {}
                              THEN reward[LastWriter(agent, s)] ELSE @[s]]]
              /\ control_actions' =
                    [control_actions EXCEPT ![generation] =
                        [s \in Slots |->
                            IF Writers(agent, s) # {}
                              THEN outer_action[LastWriter(agent, s) + 1]
                              ELSE @[s]]]
              /\ write_count' =
                    [write_count EXCEPT ![generation] =
                        [s \in Slots |->
                            @[s] + Cardinality(Writers(agent, s))]]
              /\ agent' = agent + num_envs
              /\ pc' = "batch_loop"
              /\ exc' = exc
         ELSE /\ Raise("IndexError")
              /\ UNCHANGED << outer_rewards, control_actions, agent,
                              write_count >>
    /\ UNCHANGED << morevars, avars, pvars, objvars >>
    /\ UNCHANGED << version, population_size, num_generations, num_envs,
                    skip_inner_optimalization, record_actions,
                    controller_specs, controllers, spec_loaded,
                    generation, outer_action, counter, actions, reward,
                    step_src, driven_by, ask_count, tell_count,
                    tell_evaluated, told, gen_log, asked >>

\* self._outer_optimalization.tell(solutions); run_generation returns and the
\* loop of run() advances.
Tell ==
    /\ pc = "tell"
    /\ told' = solutions
    /\ tell_count' = [tell_count EXCEPT ![generation] = @ + 1]
    /\ tell_evaluated' = [tell_evaluated EXCEPT ![generation] = evaluated]
    /\ generation' = generation + 1
    /\ pc' = "gen_loop"
    /\ UNCHANGED << morevars, avars, pvars, objvars >>
    /\ UNCHANGED << version, population_size, num_generations, num_envs,
                    skip_inner_optimalization, record_actions,
                    controller_specs, controllers, spec_loaded, exc, agent,
                    outer_action, counter, actions, reward, solutions,
                    outer_rewards, control_actions, step_src, driven_by,
                    sol_origin, ask_count, evaluated, gen_log, asked, write_count >>

\* ------------------------------------------------------------ get_best_individual

\* self._outer_rewards read in C (row-major) order, as
\* np.argmin(..., axis=None) reads it: flat index g * population + s
Flatten(rw, gens, pop) ==
    [i \in 0 .. (gens * pop - 1) |-> rw[i \div pop][i % pop]]

\* An argmin that returns the last occurrence of the minimum.
argmin_last(a) ==
    CHOOSE i \in DOMAIN a :
        /\ \A j \in DOMAIN a : a[i] <= a[j]
        /\ \A j \in DOMAIN a : (j > i) => (a[j] > a[i])

\* np.argmin: the index of the first occurrence of the minimum
argmin(a) ==
    CHOOSE i \in DOMAIN a :
        /\ \A j \in DOMAIN a : a[i] <= a[j]
        /\ \A j \in DOMAIN a : (j < i) => (a[j] > a[i])

\* np.unravel_index(i, shape=(gens, pop))
unravel_index(i, pop) == << i \div pop, i % pop >>

\* indices = np.unravel_index(np.argmin(self._outer_rewards, axis=None),
\*                            self._outer_rewards.shape)
get_best_individual(rw, gens, pop) ==
    unravel_index(argmin(Flatten(rw, gens, pop)), pop)

\* caller: sim.run(); best_gen, best_episode = sim.get_best_individual()
\* np.argmin of an empty array raises ValueError; the print that follows
\* reads self._control_actions, which exists only with record_actions.
GetBestIndividual ==
    /\ pc = "done"
    /\ IF num_generations * population_size = 0
         THEN Raise("ValueError") /\ UNCHANGED best
         ELSE IF ~record_actions
                THEN Raise("AttributeError") /\ UNCHANGED best
                ELSE /\ best' = get_best_individual(outer_rewards,
                                                    num_generations,
                                                    population_size)
                     /\ UNCHANGED << pc, exc >>
    /\ UNCHANGED << morevars, avars, pvars, gym_env, env_failures, file, restored, io_error >>
    /\ UNCHANGED << version, population_size, num_generations, num_envs,
                    skip_inner_optimalization, record_actions,
                    controller_specs, controllers, spec_loaded,
                    generation, agent, outer_action, counter, actions,
                    reward, solutions, outer_rewards, control_actions,
                    step_src, driven_by, sol_origin, ask_count, evaluated,
                    tell_count, tell_evaluated, told, gen_log, asked, write_count >>

\* ------------------------------------------------------------ finish / load

\* self.__dict__: the attributes of the live object
self_dict ==
    [population_size |-> population_size,
     num_generations |-> num_generations,
     outer_optimalization |-> [told |-> told, tell_count |-> tell_count],
     skip_inner_optimalization |-> skip_inner_optimalization,
     record_actions |-> record_actions,
     num_envs |-> num_envs,
     controller_specs |-> [specs |-> controller_specs, value |-> spec_loaded],
     controllers |-> controllers,
     gym_env |-> gym_env,
     outer_rewards |-> outer_rewards,
     actions |-> actions,
     control_actions |-> control_actions]

\* the attributes in the order __init__ assigns them, which is the order in
\* which pickle writes a dict
FieldOrder ==
    << "population_size", "num_generations", "outer_optimalization",
       "skip_inner_optimalization", "record_actions", "num_envs",
       "controller_specs", "controllers", "gym_env", "outer_rewards",
       "actions", "control_actions" >>

\* A __getstate__ that leaves out the recorded candidates as well.
getstate_without_candidates(d) ==
    [f \in DOMAIN d \ {"gym_env", "control_actions"} |-> d[f]]

\* __getstate__: state = self.__dict__.copy(); del state['_gym_env']
getstate(d) == [f \in DOMAIN d \ {"gym_env"} |-> d[f]]

\* the opcode that ends a pickle stream
STOP == << "STOP" >>

\* pickle.dump(self, handle): the attributes of __getstate__() one after the
\* other, then the STOP opcode
pickle_dump(d) ==
    LET st   == getstate(d)
        keys == SelectSeq(FieldOrder, LAMBDA f : f \in DOMAIN st)
    IN  [i \in 1 .. Len(keys) |-> << keys[i], st[keys[i]] >>] \o << STOP >>

\* a pickle stream is whole when it ends with the STOP opcode
Complete(content) ==
    content # << >> /\ content[Len(content)] = STOP

\* pickle.load(handle) on a whole stream: the attributes written
pickle_load(content) ==
    LET n == Len(content) - 1
    IN  [f \in {content[i][1] : i \in 1 .. n} |->
            (CHOOSE e \in {content[i] : i \in 1 .. n} : e[1] = f)[2]]

\* __setstate__: self.__dict__.update(state), then a new vector environment
\* built from Move(), the default task configuration
setstate(st) ==
    [f \in DOMAIN st \cup {"gym_env"} |->
        IF f = "gym_env" THEN [id |-> 2, config |-> "Move()"] ELSE st[f]]

\* the number of entries one write call carries
ChunkLen(n) == (n + MaxChunks - 1) \div MaxChunks

\* An error handler that swallows the error and carries on.
Swallow(e) == UNCHANGED << pc, exc >>

\* finish and load hold `with open(...)` and pickle calls in no try block:
\* an error raised by them leaves the method and reaches the caller
Propagate(e) == Raise(e)

\* sim.finish(store, name), up to and including open(path, 'wb'), which
\* creates the file, or empties the one that is there.  Only the correct
\* version has the method.
Finish ==
    /\ pc = "done"
    /\ version = "correct"
    /\ \E store \in BOOLEAN :
          IF ~store
            THEN /\ pc' = "finished"
                 /\ UNCHANGED << exc, file, io_error >>
            ELSE \E ok \in BOOLEAN :
                   IF ok
                     THEN /\ file' = [exists |-> TRUE, content |-> << >>]
                          /\ pc' = "dump"
                          /\ UNCHANGED << exc, io_error >>
                     ELSE /\ io_error' = "OSError"
                          /\ Propagate("OSError")
                          /\ UNCHANGED file
    /\ UNCHANGED << morevars, avars, pvars, gym_env, env_failures, best, restored >>
    /\ UNCHANGED << version, population_size, num_generations, num_envs,
                    skip_inner_optimalization, record_actions,
                    controller_specs, controllers, spec_loaded,
                    generation, agent, outer_action, counter, actions,
                    reward, solutions, outer_rewards, control_actions,
                    step_src, driven_by, sol_origin, ask_count, evaluated,
                    tell_count, tell_evaluated, told, gen_log, asked, write_count >>

\* pickle.dump(self, handle, ...): one write call of the stream into the open
\* file; after the last one the with block closes the file and finish
\* returns.
Dump ==
    /\ pc = "dump"
    /\ LET stream == pickle_dump(self_dict)
           upto   == IF Len(file.content) + ChunkLen(Len(stream)) < Len(stream)
                       THEN Len(file.content) + ChunkLen(Len(stream))
                       ELSE Len(stream)
       IN  \E ok \in BOOLEAN :
             IF ok
               THEN /\ file' = [file EXCEPT !.content = SubSeq(stream, 1, upto)]
                    /\ pc' = IF upto = Len(stream) THEN "stored" ELSE "dump"
                    /\ UNCHANGED << exc, io_error >>
               ELSE /\ io_error' = "OSError"
                    /\ Propagate("OSError")
                    /\ UNCHANGED file
    /\ UNCHANGED << morevars, avars, pvars, gym_env, env_failures, best, restored >>
    /\ UNCHANGED << version, population_size, num_generations, num_envs,
                    skip_inner_optimalization, record_actions,
                    controller_specs, controllers, spec_loaded,
                    generation, agent, outer_action, counter, actions,
                    reward, solutions, outer_rewards, control_actions,
                    step_src, driven_by, sol_origin, ask_count, evaluated,
                    tell_count, tell_evaluated, told, gen_log, asked, write_count >>

\* The process is interrupted (a signal, Ctrl-C) while finish writes: the
\* file keeps what has reached it.
Interrupt ==
    /\ pc = "dump"
    /\ pc' = "interrupted"
    /\ UNCHANGED << morevars, avars, pvars, objvars >>
    /\ UNCHANGED << version, population_size, num_generations, num_envs,
                    skip_inner_optimalization, record_actions,
                    controller_specs, controllers, spec_loaded, exc,
                    generation, agent, outer_action, counter, actions,
                    reward, solutions, outer_rewards, control_actions,
                    step_src, driven_by, sol_origin, ask_count, evaluated,
                    tell_count, tell_evaluated, told, gen_log, asked, write_count >>

\* OptimizerSimulation.load(name), by the process that stored the file or by
\* one started after an interruption: open(path, 'rb') and pickle.load, which
\* raises on a stream without its end and calls __setstate__ on a whole one;
\* __setstate__ builds the environments once, unguarded.
Load ==
    /\ pc \in {"stored", "interrupted"}
    /\ \E ok \in BOOLEAN :
          IF ~ok
            THEN /\ io_error' = "OSError"
                 /\ Propagate("OSError")
                 /\ UNCHANGED restored
            ELSE /\ UNCHANGED io_error
                 /\ IF ~Complete(file.content)
                      THEN Propagate("EOFError") /\ UNCHANGED restored
                      ELSE \E succeed \in BOOLEAN :
                             IF succeed
                               THEN /\ restored' =
                                          setstate(pickle_load(file.content))
                                    /\ pc' = "loaded"
                                    /\ exc' = exc
                               ELSE /\ Propagate("EnvironmentError")
                                    /\ UNCHANGED restored
    /\ UNCHANGED << morevars, avars, pvars, gym_env, env_failures, best, file >>
    /\ UNCHANGED << version, population_size, num_generations, num_envs,
                    skip_inner_optimalization, record_actions,
                    controller_specs, controllers, spec_loaded,
                    generation, agent, outer_action, counter, actions,
                    reward, solutions, outer_rewards, control_actions,
                    step_src, driven_by, sol_origin, ask_count, evaluated,
                    tell_count, tell_evaluated, told, gen_log, asked, write_count >>

\* if os.path.exists(file_path) and continue_where_stopped: continue
SkipsConfiguration(f) == f.exists

Next ==
    \/ Construct
    \/ CreateGymEnv
    \/ InterruptConstruction
    \/ Allocate
    \/ Run
    \/ GenLoop
    \/ BatchLoop
    \/ Ask
    \/ LoadCandidates
    \/ Reset
    \/ TickControllers
    \/ TickStep
    \/ Collect
    \/ Tell
    \/ GetBestIndividual
    \/ Finish
    \/ Dump
    \/ Interrupt
    \/ Load

Spec == Init /\ [][Next]_vars

\* ============================================================ claims, part 1

\* C1: run() executes exactly num_generations generations, the indices
\* 0..num_generations-1 each once and in increasing order, and then stops;
\* it returns only when that budget is used up, whatever rewards were seen.
C1_RunExecutesBudget ==
    /\ Len(gen_log) <= num_generations
    /\ \A i \in 1 .. Len(gen_log) : gen_log[i] = i - 1
    /\ (pc = "done") =>
          /\ gen_log = [i \in 1 .. num_generations |-> i - 1]
          /\ generation = num_generations

\* C1 witness: a run of MaxGen generations has returned although the rewards
\* of its first generation had converged.
C1_Witness ==
    /\ pc = "done"
    /\ num_generations = MaxGen
    /\ population_size >= 2
    /\ \A s, t \in Slots : outer_rewards[0][s] = outer_rewards[0][t]

\* C2: tell() is called once per generation, only when every candidate of the
\* generation has been evaluated; nothing of generation g+1 (no ask, no
\* evaluation) happens before the tell() of generation g, and no tell()
\* happens while a generation is still being asked or evaluated.
C2_TellBetweenGenerations ==
    \A g \in DOMAIN tell_count :
        /\ tell_count[g] <= 1
        /\ (g < generation) =>
              /\ tell_count[g] = 1
              /\ tell_evaluated[g] = population_size
        /\ (g >= generation) => tell_count[g] = 0

\* C2 witness: generation 1 is asking after generation 0, which took several
\* batches, has been told.
C2_Witness ==
    /\ pc = "ask"
    /\ generation = 1
    /\ population_size > num_envs
    /\ tell_count[0] = 1

\* C3 (as claimed): ask() is called exactly population_size times in every
\* generation, for every population_size and num_envs the constructor accepts.
C3_AskOncePerSlot ==
    /\ ask_count <= population_size
    /\ (pc = "tell") => (ask_count = population_size)

\* C4 (as claimed): the list handed to tell() holds exactly population_size
\* pairs, entry i coupling the candidate asked for slot i with the reward of
\* the simulation instance that was driven by that same candidate.
C4_ToldPairsMatchCandidates ==
    (pc = "tell") =>
        /\ Len(solutions) = population_size
        /\ \A i \in 1 .. Len(solutions) :
              /\ solutions[i][1] = << generation, i >>
              /\ sol_origin[i] = solutions[i][1]

\* C5 (as claimed): every entry handed to tell() carries a candidate, its
\* fitness and its behaviour descriptor.
C5_TellCarriesDescriptor ==
    \A i \in 1 .. Len(told) : Len(told[i]) = 3

\* C6 (as claimed): at every tick instance env_id is stepped with the
\* trajectory recorded for its own slot agent+env_id, produced by controller
\* env_id from the candidate loaded into specification env_id, and no
\* specification or controller is shared between two slots of a batch.
C6_SteppedWithOwnTrajectory ==
    (pc \in {"tick", "collect"}) =>
        /\ \A e \in Envs :
              (step_src[e] # -1) =>
                  /\ step_src[e] = agent + e
                  /\ actions[step_src[e]] =
                        [ctrl |-> e, cand |-> outer_action[e + 1]]
        /\ \A e, f \in Envs :
              /\ controllers[e] = controller_specs[e]
              /\ (e # f) => (controller_specs[e] # controller_specs[f])

\* <<g, s>> indexes a minimum entry of the reward history rw and no entry
\* before it in generation-major scan order is as small
IsFirstMinimum(gs, rw) ==
    /\ gs[1] \in DOMAIN rw
    /\ gs[2] \in DOMAIN rw[gs[1]]
    /\ \A g \in DOMAIN rw : \A s \in DOMAIN rw[g] :
          /\ rw[gs[1]][gs[2]] <= rw[g][s]
          /\ (rw[g][s] = rw[gs[1]][gs[2]]) =>
                (gs[1] < g \/ (gs[1] = g /\ gs[2] <= s))

\* C12: get_best_individual returns the (generation, slot) index of the
\* minimum entry of the reward history; among several minimum entries it
\* returns the first in generation-major order; the call leaves the reward
\* history (and the recorded candidates) as they were.
C12_BestIsFirstMinimum ==
    [][ (best' # best) =>
            /\ IsFirstMinimum(best', outer_rewards)
            /\ outer_rewards' = outer_rewards
            /\ control_actions' = control_actions ]_vars

\* C12 witness: the query has returned (1, 1) for a history whose first
\* generation is all 1 and whose second generation holds the minimum 0 twice,
\* at slots 1 and 2.
C12_Witness ==
    /\ best = << 1, 1 >>
    /\ population_size = 3
    /\ \A s \in Slots : outer_rewards[0][s] = 1
    /\ outer_rewards[1] = [s \in Slots |-> IF s = 0 THEN 1 ELSE 0]

\* C13 (as claimed): the constructor retries the construction of the
\* environments a bounded number of times: once MaxFailures attempts have
\* failed it is no longer in the retry loop but has ended in a failure.
C13_RetriesBounded ==
    (pc = "make_env") => (env_failures < MaxFailures)

\* C14 (as claimed): the snapshot file is never partial: when the process
\* has been interrupted during finish(), a file that exists, and so makes a
\* resumed experiment skip its configuration, holds a whole snapshot.
C14_SnapshotNeverPartial ==
    (pc = "interrupted" /\ SkipsConfiguration(file)) => Complete(file.content)

\* C15: the object restored by load has every attribute of the saved object
\* with the same value (reward history, recorded trajectories and candidates,
\* outer optimizer state, sizes), none dropped, except the environment
\* handle, which is not in the file and is built anew on load; finish and
\* load leave the live object, its environment handle included, as it was.
C15_RoundTrip ==
    /\ [](restored # NoObject =>
            /\ DOMAIN restored = DOMAIN self_dict
            /\ getstate(restored) = getstate(self_dict)
            /\ \A i \in 1 .. Len(file.content) :
                  file.content[i][1] # "gym_env"
            /\ restored.gym_env # NoEnv
            /\ restored.gym_env # gym_env)
    /\ [][ (pc \in {"done", "dump", "stored"}) =>
              (self_dict' = self_dict /\ gym_env' # NoEnv) ]_vars

\* C15 witness: an object that ran MaxGen generations with a population of
\* several slots, saw the reward 1, and was saved, has been restored.
C15_Witness ==
    /\ pc = "loaded"
    /\ restored # NoObject
    /\ num_generations = MaxGen
    /\ population_size > 1
    /\ \E s \in Slots : restored.outer_rewards[1][s] = 1
    /\ restored.control_actions[1][0] = << 1, 1 >>

\* C16: an I/O error in finish or load reaches the caller as an error: the
\* program is not carried on past it, nothing is retried and load returns
\* no object.
C16_IOErrorPropagates ==
    (io_error # "none") =>
        /\ pc = "raised"
        /\ exc = io_error
        /\ restored = NoObject

\* C16 witness: the file was written whole and the load of it met an I/O
\* error.
C16_Witness ==
    /\ io_error = "OSError"
    /\ pc = "raised"
    /\ Complete(file.content)
    /\ restored = NoObject

\* ============================================================ part 2
\* MantaRayControllerSpecificationParameterizer (src/controller/parameters.py)
\*
\* Numbers.  A real q is represented by the integer q * Den.  The amplitude
\* and offset families are in their own unit, omega and the phase biases in
\* units of pi, so np.pi is 1 and 2*np.pi*omega is 2*omega.  A component of
\* controller_action is an integer k standing for k / Den; the grid
\* -1 .. Den+1 holds the two boundary values 0 and 1, the values between
\* them, one value below 0 and one above 1.

right_fin_x == 4
left_fin_x  == 6
omega       == 4        \* omega = 4 in parameterize_specification
Pi          == 1        \* np.pi, in units of pi
bias        == Pi       \* bias = np.pi

Q(x) == x * Den

ActionGrid == -1 .. (Den + 1)
ControllerActions == [1 .. 4 -> ActionGrid]

\* A family of connection parameters: per connection its declared bounds
\* and current value.
EmptyFamily == [connections |-> << >>, low |-> << >>, high |-> << >>,
                value |-> << >>]

\* <family>.add_connections(connections, weights, low, high): the new
\* connections join the family with their bounds, their value set to weights.
add_connections(fam, conns, weights, low, high) ==
    [connections |-> fam.connections \o conns,
     low         |-> fam.low \o low,
     high        |-> fam.high \o high,
     value       |-> fam.value \o weights]

\* specification.weights.set_connections(connections, weights)
set_connections(fam, conns, weights) ==
    [fam EXCEPT !.connections = conns, !.value = weights]

\* The offset family x is declared by
\* default_controller_dragrace_specification, not by the parameterizer: it
\* is either empty or holds the two fin neurons with one of these ranges,
\* its values at the lower bound.
XRanges == {<< 0, 1 >>, << -1, 1 >>}

DefaultXFamilies ==
    {EmptyFamily} \cup
    {[connections |-> << << 0, right_fin_x >>, << 0, left_fin_x >> >>,
      low   |-> << Q(rg[1]), Q(rg[1]) >>,
      high  |-> << Q(rg[2]), Q(rg[2]) >>,
      value |-> << Q(rg[1]), Q(rg[1]) >>] : rg \in XRanges}

\* default_controller_dragrace_specification()
DefaultSpecifications ==
    {[r |-> EmptyFamily, x |-> xf, omega |-> EmptyFamily,
      weights |-> [connections |-> << >>, value |-> << >>],
      phase_biases |-> EmptyFamily] : xf \in DefaultXFamilies}

\* An upper bound of 3 Hz for the frequency, below the initial 2*pi*omega.
OmegaHighThreeHz(om) == 2 * Pi * 3

\* high of the omega family: np.ones(shape=(2, ))*2*np.pi*omega
OmegaHigh(om) == 2 * Pi * om

\* parameterize_specification
parameterize_specification(spc) ==
    LET fins  == << << 0, right_fin_x >>, << 0, left_fin_x >> >>
        conns == << << 4, 6 >>, << 6, 4 >> >>
    IN  [spc EXCEPT
            !.r = add_connections(@, fins, << Q(1), Q(1) >>,
                                  << Q(0), Q(0) >>, << Q(1), Q(1) >>),
            !.omega = add_connections(@, fins,
                                  << Q(Pi * 2 * omega), Q(Pi * 2 * omega) >>,
                                  << Q(0), Q(0) >>,
                                  << Q(OmegaHigh(omega)), Q(OmegaHigh(omega)) >>),
            !.weights = set_connections(@, conns, << Q(5), Q(5) >>),
            !.phase_biases = add_connections(@, conns,
                                  << Q(-bias), Q(bias) >>,
                                  << Q(-Pi), Q(-Pi) >>, << Q(Pi), Q(Pi) >>)]

\* An assertion that checks the upper end of the range only.
InputAcceptedUpperOnly(a) == \A i \in DOMAIN a : a[i] <= Den

\* assert np.all(controller_action >= 0) and np.all(controller_action <= 1)
InputAccepted(a) == \A i \in DOMAIN a : a[i] >= 0 /\ a[i] <= Den

\* A scaling that multiplies by high instead of by the width high - low.
AffineByHigh(low, high, k) == low + (k * high) \div Den

\* low + a * (high - low), a = k / Den.  The bounds are whole numbers, so
\* the division is exact.
Affine(low, high, k) == low + (k * (high - low)) \div Den

\* <family>.value = <family>.low + a * (<family>.high - <family>.low),
\* element by element over the connections of the family.
Scaled(fam, k) ==
    [fam EXCEPT !.value =
        [j \in DOMAIN fam.low |-> Affine(fam.low[j], fam.high[j], k)]]

\* A scaling that also sets the coupling weights, to 10 times the last
\* component of the action.
parameter_space_with_weights(spc, a) ==
    [spc EXCEPT !.r = Scaled(@, a[1]),
                !.x = Scaled(@, a[2]),
                !.omega = Scaled(@, a[3]),
                !.phase_biases = Scaled(@, a[4]),
                !.weights = [connections |-> spc.weights.connections,
                             value |-> [j \in DOMAIN spc.weights.value |->
                                           10 * a[4]]]]

\* body of parameter_space after the assertion:
\*   amplitude, offset, frequency, phase_bias = controller_action[0..3]
parameter_space(spc, a) ==
    [spc EXCEPT !.r = Scaled(@, a[1]),
                !.x = Scaled(@, a[2]),
                !.omega = Scaled(@, a[3]),
                !.phase_biases = Scaled(@, a[4])]

SimUnused ==
    /\ version = "correct"
    /\ population_size = 1
    /\ num_envs = 1
    /\ num_generations = 0
    /\ skip_inner_optimalization = TRUE
    /\ record_actions = TRUE
    /\ controller_specs = << >>
    /\ controllers = << >>
    /\ spec_loaded = << >>
    /\ pc = "unused"
    /\ exc = "none"
    /\ generation = 0
    /\ agent = 0
    /\ outer_action = << >>
    /\ counter = 0
    /\ actions = << >>
    /\ reward = << >>
    /\ solutions = << >>
    /\ outer_rewards = << >>
    /\ control_actions = << >>
    /\ step_src = << >>
    /\ driven_by = << >>
    /\ sol_origin = << >>
    /\ ask_count = 0
    /\ evaluated = 0
    /\ tell_count = << >>
    /\ tell_evaluated = << >>
    /\ told = << >>
    /\ gen_log = << >>
    /\ asked = << >>
    /\ write_count = << >>

InitParam ==
    /\ SimUnused
    /\ MoreUnused
    /\ ObjNew
    /\ ArchiveUnused
    /\ p_state = "fresh"
    /\ sp \in DefaultSpecifications
    /\ controller_action = << >>

\* parameterizer.parameterize_specification(specification=sp)
ParameterizeSpecification ==
    /\ p_state = "fresh"
    /\ sp' = parameterize_specification(sp)
    /\ p_state' = "ready"
    /\ UNCHANGED controller_action
    /\ UNCHANGED << simvars, objvars, avars, morevars >>

\* parameterizer.parameter_space(specification=sp, controller_action=a);
\* a failed assertion raises AssertionError, which no caller catches.
ParameterSpace ==
    /\ p_state = "ready"
    /\ \E a \in ControllerActions :
          /\ controller_action' = a
          /\ IF InputAccepted(a)
               THEN sp' = parameter_space(sp, a) /\ p_state' = "ready"
               ELSE sp' = sp /\ p_state' = "raised"
    /\ UNCHANGED << simvars, objvars, avars, morevars >>

NextParam ==
    \/ ParameterizeSpecification
    \/ ParameterSpace

SpecParam == InitParam /\ [][NextParam]_vars

\* ============================================================ claims, part 2

\* every component of a lies in [0, 1]
InUnitRange(a) == \A i \in 1 .. 4 : 0 <= a[i] /\ a[i] <= Den

\* every value of the family is low + (k / Den) * (high - low), lies within
\* [low, high], and is exactly low for k/Den = 0 and exactly high for
\* k/Den = 1
FamilyFollows(fam, k) ==
    \A j \in DOMAIN fam.value :
        /\ Den * fam.value[j] = Den * fam.low[j] + k * (fam.high[j] - fam.low[j])
        /\ fam.low[j] <= fam.value[j]
        /\ fam.value[j] <= fam.high[j]
        /\ (k = 0) => (fam.value[j] = fam.low[j])
        /\ (k = Den) => (fam.value[j] = fam.high[j])

InBounds(fam) ==
    \A j \in DOMAIN fam.value :
        fam.low[j] <= fam.value[j] /\ fam.value[j] <= fam.high[j]

\* C7: after parameter_space with a controller_action whose components all
\* lie in [0,1], the families r, x, omega and phase_biases hold
\* low + a_i * (high - low) for a_0 = amplitude, a_1 = offset,
\* a_2 = frequency, a_3 = phase_bias: within [low, high], exactly low for
\* a_i = 0 and exactly high for a_i = 1.
C7_AffineScaling ==
    (controller_action # << >> /\ InUnitRange(controller_action)) =>
        /\ p_state = "ready"
        /\ FamilyFollows(sp.r, controller_action[1])
        /\ FamilyFollows(sp.x, controller_action[2])
        /\ FamilyFollows(sp.omega, controller_action[3])
        /\ FamilyFollows(sp.phase_biases, controller_action[4])

\* C7 witness: a call with amplitude 0, offset 1, an interior frequency and
\* an interior phase bias has returned, on a specification with offsets.
C7_Witness ==
    /\ p_state = "ready"
    /\ controller_action = << 0, Den, 1, 1 >>
    /\ sp.x.value # << >>
    /\ sp.x.low # sp.x.high

\* C8: a parameter_space call with a component below 0 or above 1 fails with
\* an error and leaves the specification as it was; nothing is clamped and
\* applied.
C8_OutOfRangeRejected ==
    [][ (p_state = "ready" /\ ~InUnitRange(controller_action')) =>
            (p_state' = "raised" /\ sp' = sp) ]_vars

\* C8 witness: a call with a negative amplitude has failed on a
\* specification that an earlier call had scaled, and that scaling is still
\* in place.
C8_Witness ==
    /\ p_state = "raised"
    /\ controller_action[1] = -1
    /\ sp.r.value = << 1, 1 >>
    /\ sp.phase_biases.value = << Q(Pi), Q(Pi) >>

\* C9: after parameterize_specification and after any sequence of
\* parameter_space calls every value of the r, omega, phase_biases and x
\* families lies within its declared bounds.
C9_ValuesWithinBounds ==
    (p_state \in {"ready", "raised"}) =>
        /\ InBounds(sp.r)
        /\ InBounds(sp.omega)
        /\ InBounds(sp.phase_biases)
        /\ InBounds(sp.x)

\* C9 witness: a call has returned that put the phase biases on their lower
\* bound and the amplitudes on their upper bound, on a specification with
\* offsets.
C9_Witness ==
    /\ p_state = "ready"
    /\ controller_action = << Den, 0, Den, 0 >>
    /\ sp.phase_biases.value = << Q(-Pi), Q(-Pi) >>
    /\ sp.r.value = << Q(1), Q(1) >>
    /\ sp.x.value # << >>

\* C10 (as claimed): the phase biases of the connections (4,6) and (6,4)
\* are negations of each other after parameterize_specification and after
\* every parameter_space call.
C10_MirroredPhaseBias ==
    (p_state \in {"ready", "raised"}) =>
        \A i, j \in DOMAIN sp.phase_biases.connections :
            (/\ sp.phase_biases.connections[i] = << 4, 6 >>
             /\ sp.phase_biases.connections[j] = << 6, 4 >>)
                => (sp.phase_biases.value[i] = -sp.phase_biases.value[j])

\* the connections and the declared bounds of a family are the same in s, t
SameTopology(f, g) ==
    /\ f.connections = g.connections
    /\ f.low = g.low
    /\ f.high = g.high

\* C11: parameter_space changes only the values of the r, x, omega and
\* phase_biases families: the connections of every family, every declared
\* low/high bound and the coupling weights set by parameterize_specification
\* are the same after the call as before it.
C11_FrameEffect ==
    [][ (p_state = "ready") =>
            /\ DOMAIN sp' = DOMAIN sp
            /\ SameTopology(sp'.r, sp.r)
            /\ SameTopology(sp'.x, sp.x)
            /\ SameTopology(sp'.omega, sp.omega)
            /\ SameTopology(sp'.phase_biases, sp.phase_biases)
            /\ sp'.weights = sp.weights ]_vars

\* C11 witness: a call has returned that moved the amplitudes and the phase
\* biases away from what parameterize_specification had set, and the coupling
\* weights are still the [5, 5] of parameterize_specification.
C11_Witness ==
    /\ p_state = "ready"
    /\ controller_action # << >>
    /\ sp.r.value = << Q(0), Q(0) >>
    /\ sp.phase_biases.value = << Q(0), Q(0) >>
    /\ sp.weights.connections = << << 4, 6 >>, << 6, 4 >> >>
    /\ sp.weights.value = << Q(5), Q(5) >>

\* ============================================================ part 3
\* Archive (thesis_manta_ray.controller.quality_diversity), as it is
\* constructed in src/experiments/qd_v0.5_t3/exp.py and queried in
\* src/controller/rule_based.py.
\*
\* Numbers.  Angles are in units of pi/2, so the feature domain of roll is
\* [-2, 2] and that of pitch is [-1, 1]; the model keeps these two of the
\* three features.  Every feature has the same resolution.

MaxRes     == 3    \* resolution of every feature (bins per dimension)
MaxItems   == 2    \* max_items_per_bin ranges over 1..MaxItems
MaxK       == 2    \* k of get_closest_solutions ranges over 0..MaxK

\* feature_bounds=[(-np.pi, np.pi), (-np.pi/2, np.pi/2), ...]
feature_bounds == << << -2, 2 >>, << -1, 1 >> >>

\* resolutions=[10, 10, 10], scaled down
resolutions == [i \in DOMAIN feature_bounds |-> MaxRes]

Dims == DOMAIN feature_bounds

\* behaviour descriptors the simulation may report: below the domain in
\* roll, inside it, on its upper bound in both features, and above it in
\* roll
Descriptors == {<< -3, 0 >>, << 0, 0 >>, << 2, 1 >>, << 3, 1 >>}
Fitnesses   == {0, 1, 2}
Optimisations == {"minimization", "maximization"}

\* a candidate handed to insert
Candidates ==
    [parameters : {"theta"}, descriptor : Descriptors, fitness : Fitnesses]

\* feature vectors asked for by get_closest_solutions
QueryFeatures == {<< 1, 0 >>, << -3, 1 >>}

Cells == (0 .. (resolutions[1] - 1)) \X (0 .. (resolutions[2] - 1))

\* clamp to [0, resolution - 1]
clamp(c, res) == IF c < 0 THEN 0 ELSE IF c > res - 1 THEN res - 1 ELSE c

\* A bin computed from the descriptor itself, the lower end of the domain
\* not subtracted.
bin_from_zero(d, i) ==
    (d * resolutions[i]) \div (feature_bounds[i][2] - feature_bounds[i][1])

\* floor((descriptor_i - domain_low_i) / bin_width_i) with
\* bin_width_i = (domain_high_i - domain_low_i) / resolution_i
bin(d, i) ==
    ((d - feature_bounds[i][1]) * resolutions[i])
        \div (feature_bounds[i][2] - feature_bounds[i][1])

\* the cell a descriptor addresses
cell_index(descriptor) ==
    [i \in Dims |-> clamp(bin(descriptor[i], i), resolutions[i])]

\* the archive's fixed policy as a key to compare: the smaller, the better
fitness_key(mode, f) == IF mode = "minimization" THEN f ELSE 0 - f

\* A comparison that also accepts an equal fitness.
not_worse(mode, f, g) == fitness_key(mode, f) <= fitness_key(mode, g)

\* fitness f strictly improves on fitness g under the archive's policy
improves(mode, f, g) == fitness_key(mode, f) < fitness_key(mode, g)

\* the insert calls the model follows: enough to fill a cell and to
\* challenge the full cell once
InsertBudget(cap) == cap + 1

\* A capacity test that lets one solution too many in.
has_capacity_off_by_one(cell, cap) == Len(cell) <= cap

\* the cell can take one more solution
has_capacity(cell, cap) == Len(cell) < cap

\* position of the worst occupant of a non-empty cell (the first of several)
worst(mode, cell) ==
    CHOOSE i \in 1 .. Len(cell) :
        /\ \A j \in 1 .. Len(cell) :
              fitness_key(mode, cell[j].fitness)
                  <= fitness_key(mode, cell[i].fitness)
        /\ \A j \in 1 .. (i - 1) :
              fitness_key(mode, cell[j].fitness)
                  < fitness_key(mode, cell[i].fitness)

\* insert(parameters, descriptor, fitness) -> accepted: the archive after the
\* call and the returned value
insert(arch, cap, mode, cand) ==
    LET c   == cell_index(cand.descriptor)
        old == arch[c]
    IN  IF has_capacity(old, cap)
          THEN [archive  |-> [arch EXCEPT ![c] = Append(old, cand)],
                accepted |-> TRUE]
          ELSE IF improves(mode, cand.fitness, old[worst(mode, old)].fitness)
                 THEN [archive  |-> [arch EXCEPT
                                        ![c] = [old EXCEPT
                                                  ![worst(mode, old)] = cand]],
                       accepted |-> TRUE]
                 ELSE [archive |-> arch, accepted |-> FALSE]

\* cells that hold at least one solution
Occupied(arch) == {c \in DOMAIN arch : arch[c] # << >>}

\* squared Euclidean distance between a feature vector and the centre of a
\* cell, times (2 * resolution)^2 to stay in whole numbers
Dist2(feature, c) ==
    LET diff(i) == 2 * resolutions[i] * (feature[i] - feature_bounds[i][1])
                   - (2 * c[i] + 1)
                       * (feature_bounds[i][2] - feature_bounds[i][1])
    IN  diff(1) * diff(1) + diff(2) * diff(2)

\* An order that puts the farthest cell first.
ordered_farthest_first(r, feature) ==
    \A i \in 1 .. (Len(r) - 1) : Dist2(feature, r[i]) >= Dist2(feature, r[i + 1])

\* the cells of r are in order of non-decreasing distance to the feature
ordered(r, feature) ==
    \A i \in 1 .. (Len(r) - 1) : Dist2(feature, r[i]) <= Dist2(feature, r[i + 1])

\* the number of results: all occupied cells when there are fewer than k
result_count(n, k) == IF n < k THEN n ELSE k

\* get_closest_solutions(feature, k): the orders in which the nearest
\* occupied cells may be returned (cells at the same distance in any order)
closest_cells(arch, feature, k) ==
    LET occ == Occupied(arch)
        m   == result_count(Cardinality(occ), k)
    IN  {r \in [1 .. m -> occ] :
            /\ \A i, j \in 1 .. m : (i # j) => (r[i] # r[j])
            /\ ordered(r, feature)
            /\ \A c \in occ :
                  (\A i \in 1 .. m : r[i] # c) =>
                      (\A i \in 1 .. m :
                          Dist2(feature, r[i]) <= Dist2(feature, c))}

\* archive = Archive(parameter_bounds=..., feature_bounds=..., resolutions=...,
\*                   ..., max_items_per_bin=1): an empty grid
InitArchive ==
    /\ SimUnused
    /\ MoreUnused
    /\ ObjNew
    /\ ParamUnused
    /\ a_state = "ready"
    /\ max_items_per_bin \in 1 .. MaxItems
    /\ optimisation \in Optimisations
    /\ archive = [c \in Cells |-> << >>]
    /\ n_inserts = 0
    /\ last_insert = NoInsert
    /\ closest = NoResult

\* archive.insert(parameters, descriptor, fitness)
Insert ==
    /\ a_state = "ready"
    /\ n_inserts < InsertBudget(max_items_per_bin)
    /\ \E cand \in Candidates :
          LET r == insert(archive, max_items_per_bin, optimisation, cand)
          IN  /\ archive' = r.archive
              /\ last_insert' = [candidate |-> cand,
                                 cell      |-> cell_index(cand.descriptor),
                                 accepted  |-> r.accepted]
    /\ n_inserts' = n_inserts + 1
    /\ closest' = NoResult
    /\ UNCHANGED << a_state, max_items_per_bin, optimisation >>
    /\ UNCHANGED << simvars, objvars, pvars, morevars >>

\* self._archive.get_closest_solutions(feature=features, k=k): one entry per
\* returned cell, the list of the solutions the cell holds
GetClosestSolutions ==
    /\ a_state = "ready"
    /\ \E feature \in QueryFeatures, k \in 0 .. MaxK :
          \E r \in closest_cells(archive, feature, k) :
              closest' = [feature |-> feature,
                          k       |-> k,
                          cells   |-> r,
                          result  |-> [i \in 1 .. Len(r) |-> archive[r[i]]]]
    /\ last_insert' = NoInsert
    /\ UNCHANGED << a_state, max_items_per_bin, optimisation, archive,
                    n_inserts >>
    /\ UNCHANGED << simvars, objvars, pvars, morevars >>

NextArchive ==
    \/ Insert
    \/ GetClosestSolutions

SpecArchive == InitArchive /\ [][NextArchive]_vars

\* ============================================================ claims, part 3

\* the candidate of the insert call that has just returned sits whole in
\* the cell at position i
HoldsCandidate(cell, i, ins) ==
    /\ i \in 1 .. Len(cell)
    /\ cell[i] = ins.candidate

\* C17: no cell holds more than max_items_per_bin solutions, and every
\* insert call either stores its candidate whole, in one cell and with no
\* other cell touched, or leaves the archive exactly as it was.
C17_CapacityAndAtomicInsert ==
    /\ [](a_state = "ready" =>
            \A c \in DOMAIN archive : Len(archive[c]) <= max_items_per_bin)
    /\ [][ (a_state = "ready" /\ last_insert' # NoInsert) =>
              IF last_insert'.accepted
                THEN /\ \E i \in 1 .. max_items_per_bin :
                          HoldsCandidate(archive'[last_insert'.cell], i,
                                         last_insert')
                     /\ \A c \in DOMAIN archive :
                          (c # last_insert'.cell) => (archive'[c] = archive[c])
                ELSE archive' = archive ]_vars

\* C17 witness: a call was rejected by a full cell of MaxItems solutions,
\* which holds a solution other than the candidate.
C17_Witness ==
    /\ last_insert # NoInsert
    /\ ~last_insert.accepted
    /\ max_items_per_bin = MaxItems
    /\ Len(archive[last_insert.cell]) = max_items_per_bin
    /\ \E i \in 1 .. max_items_per_bin :
          archive[last_insert.cell][i] # last_insert.candidate

\* C18: insert into a cell with free capacity stores the candidate and
\* returns accepted; insert into a full cell replaces the worst occupant
\* if and only if the candidate's fitness is strictly better than that
\* occupant's under the archive's policy, and otherwise returns rejected and
\* leaves the cell as it was; an equal fitness is rejected.
C18_InsertPolicy ==
    [][ (a_state = "ready" /\ last_insert' # NoInsert) =>
          LET cand == last_insert'.candidate
              old  == archive[last_insert'.cell]
              new  == archive'[last_insert'.cell]
              \* the occupants no other occupant is strictly worse than
              worsts == {i \in 1 .. Len(old) :
                            \A j \in 1 .. Len(old) :
                                IF optimisation = "minimization"
                                  THEN old[j].fitness <= old[i].fitness
                                  ELSE old[j].fitness >= old[i].fitness}
              better == \E i \in worsts :
                            IF optimisation = "minimization"
                              THEN cand.fitness < old[i].fitness
                              ELSE cand.fitness > old[i].fitness
          IN  IF Len(old) < max_items_per_bin
                THEN /\ last_insert'.accepted
                     /\ new = Append(old, cand)
                ELSE /\ last_insert'.accepted <=> better
                     /\ better =>
                          \E i \in worsts : new = [old EXCEPT ![i] = cand]
                     /\ ~better => new = old ]_vars

\* C18 witness: a full cell of two solutions has had its worst occupant
\* replaced by a candidate that is better than it and worse than the other
\* occupant.
C18_Witness ==
    /\ last_insert # NoInsert
    /\ last_insert.accepted
    /\ max_items_per_bin = 2
    /\ n_inserts > max_items_per_bin
    /\ last_insert.candidate.fitness = 1
    /\ Len(archive[last_insert.cell]) = 2
    /\ \E i \in 1 .. 2 :
          /\ archive[last_insert.cell][i].fitness \in {0, 2}
          /\ archive[last_insert.cell][i].descriptor
                # last_insert.candidate.descriptor

\* C19: for every descriptor, also one outside the feature domain, insert
\* addresses the cell whose index in each dimension is
\* floor((descriptor_i - low_i) / bin_width_i) clamped to
\* [0, resolution_i - 1]: a descriptor below the domain lands in bin 0, one
\* on or above the upper bound in the last bin, one inside in the bin whose
\* interval holds it; an outside descriptor is stored like any other.
C19_CellIndexClamped ==
    (last_insert # NoInsert) =>
        /\ \A i \in Dims :
              LET d     == last_insert.candidate.descriptor[i]
                  low   == feature_bounds[i][1]
                  high  == feature_bounds[i][2]
                  res   == resolutions[i]
                  c     == last_insert.cell[i]
              IN  /\ c \in 0 .. (res - 1)
                  /\ (d < low) => (c = 0)
                  /\ (d >= high) => (c = res - 1)
                  /\ (low <= d /\ d < high) =>
                        /\ c * (high - low) <= (d - low) * res
                        /\ (d - low) * res < (c + 1) * (high - low)
        /\ last_insert.accepted =>
              \E i \in 1 .. Len(archive[last_insert.cell]) :
                  archive[last_insert.cell][i] = last_insert.candidate
        /\ (n_inserts = 1) => last_insert.accepted

\* C19 witness: a descriptor above the domain in roll and on the upper bound
\* in pitch has been stored in the last cell of both dimensions.
C19_Witness ==
    /\ last_insert # NoInsert
    /\ last_insert.candidate.descriptor = << 3, 1 >>
    /\ last_insert.accepted
    /\ last_insert.cell = << MaxRes - 1, MaxRes - 1 >>

\* C20: get_closest_solutions(feature, k) on an archive with n occupied
\* cells returns min(n, k) results without an error, each the content of a
\* different occupied cell, in order of non-decreasing Euclidean distance to
\* the feature, no cell left out being nearer than one returned; the only
\* solution of an archive is returned for a feature next to its descriptor.
C20_ClosestSolutions ==
    (closest # NoResult) =>
        LET n == Cardinality({c \in DOMAIN archive : Len(archive[c]) > 0})
            m == Len(closest.result)
        IN  /\ m = (IF n <= closest.k THEN n ELSE closest.k)
            /\ Len(closest.cells) = m
            /\ \A i \in 1 .. m :
                  /\ Len(archive[closest.cells[i]]) > 0
                  /\ closest.result[i] = archive[closest.cells[i]]
            /\ \A i, j \in 1 .. m :
                  (i < j) =>
                      /\ closest.cells[i] # closest.cells[j]
                      /\ Dist2(closest.feature, closest.cells[i])
                            <= Dist2(closest.feature, closest.cells[j])
            /\ \A c \in DOMAIN archive :
                  (Len(archive[c]) > 0 /\ \A i \in 1 .. m : closest.cells[i] # c)
                      => \A i \in 1 .. m :
                            Dist2(closest.feature, closest.cells[i])
                                <= Dist2(closest.feature, c)

\* C20 witness: two cells are occupied, at different distances from the
\* feature, and a query for more cells than are occupied has returned both,
\* the one holding the descriptor (0, 0) first for the feature (1, 0).
C20_Witness ==
    /\ closest # NoResult
    /\ closest.k = MaxK
    /\ Cardinality(Occupied(archive)) = 2
    /\ closest.feature = << 1, 0 >>
    /\ Len(closest.result) = 2
    /\ closest.result[1][1].descriptor = << 0, 0 >>
    /\ Dist2(closest.feature, closest.cells[1])
          < Dist2(closest.feature, closest.cells[2])

\* C21: inserting the same (parameters, descriptor, fitness) twice into an
\* empty archive leaves exactly one stored solution in the target cell, for
\* every descriptor and every max_items_per_bin: when the second insert call
\* on an archive that was empty repeats the candidate of the first, the
\* target cell holds one solution afterwards.
C21_SameTripleStoredOnce ==
    [][ ( /\ n_inserts = 1
          /\ n_inserts' = 2
          /\ last_insert # NoInsert
          /\ last_insert'.candidate = last_insert.candidate )
        => Len(archive'[last_insert'.cell]) = 1 ]_vars

\* ====================================================================
\* Part 4: run_episode_single, the scaling of a controller's output
\* ====================================================================
\* The controller answers in units of 1 / Den, the actuator bounds are
\* integers, and a recorded actuation value is kept in units of 1 / Unit,
\* in which the scaling is exact.

Unit == 2 * Den

Actuators == 1 .. MaxAct
Samples == 1 .. MaxSamples

\* self._action_spec.minimum and .maximum of one actuator
ActuatorRanges == {<< -1, 1 >>, << 0, 3 >>}

\* values a controller may answer with: the ends of [-1, 1], its middle and
\* the nearest values outside it
Outputs == {-Den - 1, -Den, 0, Den, Den + 1}

\* (output + 1) / 2 left out
scaled_action_unnormalised(mn, mx, out) ==
    [a \in DOMAIN out |->
        [t \in DOMAIN out[a] |-> Unit * mn[a] + 2 * out[a][t] * (mx[a] - mn[a])]]

\* normalised_action = (ask(...) + 1) / 2
\* scaled_action = minimum + normalised_action * (maximum - minimum)
\* minimum and maximum have shape (n_neurons, 1): one bound per row
scaled_action(mn, mx, out) ==
    [a \in DOMAIN out |->
        [t \in DOMAIN out[a] |-> Unit * mn[a] + (out[a][t] + Den) * (mx[a] - mn[a])]]

EpisodeRest ==
    /\ SimUnused
    /\ ObjNew
    /\ ParamUnused
    /\ ArchiveUnused

\* an object with its action_spec and record_actions set by the constructor
InitEpisode ==
    /\ EpisodeRest
    /\ NotInterrupted
    /\ RestUnused
    /\ e_state = "ready"
    /\ e_record_actions \in BOOLEAN
    /\ \E rg \in [Actuators -> ActuatorRanges] :
          /\ minimum = [a \in Actuators |-> rg[a][1]]
          /\ maximum = [a \in Actuators |-> rg[a][2]]
    /\ controller_output = << >>
    /\ episode_actions = NoActions
    /\ sent = NoActions

\* run_episode_single at the first tick, pre-compute mode: the controller is
\* asked for its trajectory and the scaled trajectory is recorded when
\* record_actions is set
RunEpisodeSingle ==
    /\ e_state = "ready"
    /\ \E out \in [Actuators -> [Samples -> Outputs]] :
          /\ controller_output' = out
          /\ episode_actions' = IF e_record_actions
                                  THEN scaled_action(minimum, maximum, out)
                                  ELSE episode_actions
    /\ e_state' = "asked"
    /\ UNCHANGED << e_record_actions, minimum, maximum, sent >>
    /\ UNCHANGED << simvars, objvars, pvars, avars, ivars, restvars >>

\* self._gym_env.step(self._actions[generation, episode, :, counter]):
\* without record_actions the attribute _actions does not exist
StepEpisode ==
    /\ e_state = "asked"
    /\ IF e_record_actions
         THEN \E t \in Samples :
                 /\ sent' = [a \in Actuators |-> episode_actions[a][t]]
                 /\ e_state' = "asked"
         ELSE /\ e_state' = "raised"
              /\ sent' = sent
    /\ UNCHANGED << e_record_actions, minimum, maximum, controller_output,
                    episode_actions >>
    /\ UNCHANGED << simvars, objvars, pvars, avars, ivars, restvars >>

NextEpisode ==
    \/ RunEpisodeSingle
    \/ StepEpisode

SpecEpisode == InitEpisode /\ [][NextEpisode]_vars

\* ============================================================ claims, part 4

\* the controller's answer for actuator a at sample t lies in [-1, 1]
OutputInRange(a, t) ==
    /\ -Den <= controller_output[a][t]
    /\ controller_output[a][t] <= Den

\* C22: for a controller output in [-1, 1], run_episode_single records
\* minimum + ((output + 1) / 2) * (maximum - minimum) per actuator: the
\* recorded value lies within [minimum, maximum], output -1 gives minimum,
\* output +1 gives maximum, and every value sent to the simulation is a
\* recorded one.
C22_ScaledWithinBounds ==
    /\ (e_state = "asked" /\ e_record_actions) =>
          \A a \in Actuators : \A t \in Samples :
              OutputInRange(a, t) =>
                  /\ Unit * minimum[a] <= episode_actions[a][t]
                  /\ episode_actions[a][t] <= Unit * maximum[a]
                  /\ (controller_output[a][t] = -Den)
                        => episode_actions[a][t] = Unit * minimum[a]
                  /\ (controller_output[a][t] = Den)
                        => episode_actions[a][t] = Unit * maximum[a]
                  /\ episode_actions[a][t] - Unit * minimum[a]
                        = (controller_output[a][t] + Den)
                             * (maximum[a] - minimum[a])
    /\ (sent # NoActions) =>
          \E t \in Samples : \A a \in Actuators :
              /\ sent[a] = episode_actions[a][t]
              /\ OutputInRange(a, t) =>
                    (Unit * minimum[a] <= sent[a] /\ sent[a] <= Unit * maximum[a])

\* C22 witness: one actuator was answered -1 and another +1, and the row
\* sent to the simulation holds the minimum of the first and the maximum of
\* the second, which differ from 0.
C22_Witness ==
    /\ sent # NoActions
    /\ controller_output[1][1] = -Den
    /\ controller_output[2][1] = Den
    /\ minimum[1] = -1
    /\ maximum[2] = 3
    /\ sent[1] = Unit * minimum[1]
    /\ sent[2] = Unit * maximum[2]

\* ============================================================ claims, part 1, continued

\* the tick loop of the current episode has made at least one environment
\* step
Stepped == pc \in {"tick", "step", "collect"} /\ counter >= 1

\* C23: in pre-compute mode each of the num_envs controllers is asked
\* exactly once per episode, at the first tick (observed time 0); the
\* trajectory of every slot of the batch is recorded before the first
\* environment step; at no later tick is a controller asked again or a
\* recorded trajectory changed.
C23_AskedOnceAtFirstTick ==
    /\ [](Stepped =>
            /\ skip_inner_optimalization
            /\ \A e \in Envs :
                  /\ asked[e] = 1
                  /\ agent + e \in DOMAIN actions
                  /\ actions[agent + e] # NoTraj
                  /\ actions[agent + e].ctrl = e)
    /\ [][ (pc \in {"tick", "step"} /\ counter >= 1)
              => (asked' = asked /\ actions' = actions) ]_vars

\* C23 witness: an episode of two environments has ended after MaxTicks
\* ticks, in the second generation.
C23_Witness ==
    /\ pc = "collect"
    /\ counter = MaxTicks
    /\ num_envs = 2
    /\ generation = 1
    /\ skip_inner_optimalization
    /\ \A e \in Envs : asked[e] = 1 /\ actions[agent + e].ctrl = e

\* entry (g, p) of the two history arrays after the step differs from the
\* entry before it, or a store into it was counted
Written(g, p) ==
    \/ write_count'[g][p] # write_count[g][p]
    \/ outer_rewards'[g][p] # outer_rewards[g][p]
    \/ control_actions'[g][p] # control_actions[g][p]

\* C24: after run() returns every entry (g, p) of the reward history and of
\* the candidate history has been written exactly once, during generation
\* g, with the reward and the candidate of population slot p; no generation
\* writes an entry of another generation and no write falls outside the
\* (num_generations, population_size) arrays.
C24_HistoryWrittenOnce ==
    /\ [](pc = "done" =>
            /\ DOMAIN outer_rewards = Gens
            /\ DOMAIN control_actions = Gens
            /\ \A g \in Gens :
                  /\ DOMAIN outer_rewards[g] = Slots
                  /\ DOMAIN control_actions[g] = Slots
                  /\ \A p \in Slots :
                        /\ write_count[g][p] = 1
                        /\ control_actions[g][p] = << g, p + 1 >>)
    /\ [](pc = "collect" =>
            /\ generation \in Gens
            /\ \A e \in Envs : agent + e \in Slots)
    /\ [][ (pc = "collect" /\ pc' # "raised") =>
              \A g \in Gens : \A p \in Slots :
                  IF g = generation /\ p \in agent .. (agent + num_envs - 1)
                    THEN /\ write_count'[g][p] = write_count[g][p] + 1
                         /\ outer_rewards'[g][p] = reward[p - agent]
                         /\ control_actions'[g][p] = outer_action[p - agent + 1]
                    ELSE ~Written(g, p) ]_vars
    /\ [][ (pc \notin {"collect", "allocate"}) =>
              (/\ write_count' = write_count
               /\ outer_rewards' = outer_rewards
               /\ control_actions' = control_actions) ]_vars

\* C24 witness: run() has returned after two generations of three slots,
\* evaluated one slot at a time, and the rewards of a generation differ.
C24_Witness ==
    /\ pc = "done"
    /\ num_generations = 2
    /\ population_size = 3
    /\ num_envs = 1
    /\ outer_rewards[1][0] # outer_rewards[1][2]
    /\ \A g \in Gens : \A p \in Slots : write_count[g][p] = 1

\* C25 (as claimed): a process-level interruption delivered while the
\* constructor is in the environment-construction retry loop cancels the
\* construction: it ends the loop and propagates to the caller, and is not
\* absorbed as one more failed attempt followed by another retry.
C25_InterruptCancelsConstruction ==
    (interrupted_at # "none") => (pc = "raised" /\ exc = "KeyboardInterrupt")

\* ====================================================================
\* Part 5: the script energy_velocity_exp.py
\* ====================================================================

\* continue_where_stopped = True
continue_where_stopped == TRUE

\* for reward_fn in DragRaceTask.reward_functions:
\*     for velocity in list(np.linspace(0.2, 1.2, 8)):
Configs == 1 .. MaxConfigs

\* directories the script can be started in: "root" is
\* /media/ruben/data/documents/unief/thesis/thesis_manta_ray
Dirs == {"root", "elsewhere"}

\* a path is a directory the script can run in and what lies under its
\* experiments/energy_velocity_experiment/sim_objects: 0 is the folder
\* sim_objects itself, c > 0 the file
\* energy_velocity_<velocity>_reward_function_<reward>.pkl of configuration c
Paths == Dirs \X (0 .. MaxConfigs)

\* file_path = "/media/ruben/.../thesis_manta_ray/experiments/
\*     energy_velocity_experiment/sim_objects/energy_velocity_..." (absolute)
file_path(c) == << "root", c >>

\* finish: path = f"experiments/{name}.pkl" with
\* name = "energy_velocity_experiment/sim_objects/energy_velocity_...",
\* a relative path, resolved against the working directory
store_path(dir, c) == << dir, c >>

\* os.path.exists(path)
exists(files, path) == files[path] # "none"

ExperimentRest ==
    /\ SimUnused
    /\ ObjNew
    /\ ParamUnused
    /\ ArchiveUnused
    /\ EpisodeUnused
    /\ NotInterrupted

\* the script has been started for the first time, no result file exists
InitExperiment ==
    /\ ExperimentRest
    /\ RuleUnused
    /\ TaskUnused
    /\ script_pc = "check"
    /\ cwd \in Dirs
    /\ config = 1
    /\ \E elsewhere \in {"none", "dir"} :
          fs = [p \in Paths |->
                  IF p[2] # 0 THEN "none"
                  ELSE IF p[1] = "root" THEN "dir" ELSE elsewhere]
    /\ simulated = [c \in Configs |-> 0]
    /\ overwritten = {}
    /\ restarts = 0

\* the head of the loop body, lines 36-42:
\* if os.path.exists(file_path) and continue_where_stopped: continue
CheckExists ==
    /\ script_pc = "check"
    /\ IF config > MaxConfigs
         THEN /\ script_pc' = "finished"
              /\ config' = config
         ELSE IF exists(fs, file_path(config)) /\ continue_where_stopped
                THEN /\ config' = config + 1
                     /\ script_pc' = "check"
                ELSE /\ config' = config
                     /\ script_pc' = "simulate"
    /\ UNCHANGED << cwd, fs, simulated, overwritten, restarts >>
    /\ UNCHANGED << simvars, objvars, pvars, avars, evars, ivars, rvars,
                    tvars >>

\* lines 44-104: sim = OptimizerSimulation(...); sim.run()
SimulateConfig ==
    /\ script_pc = "simulate"
    /\ simulated' = [simulated EXCEPT ![config] = @ + 1]
    /\ script_pc' = "store"
    /\ UNCHANGED << cwd, config, fs, overwritten, restarts >>
    /\ UNCHANGED << simvars, objvars, pvars, avars, evars, ivars, rvars,
                    tvars >>

\* line 106, sim.finish(store=True, name=...): open(path, 'wb') creates or
\* truncates the file; it raises FileNotFoundError when the folder is missing
OpenResultFile ==
    /\ script_pc = "store"
    /\ LET path == store_path(cwd, config)
       IN  IF exists(fs, << cwd, 0 >>)
             THEN /\ fs' = [fs EXCEPT ![path] = "partial"]
                  /\ overwritten' = IF exists(fs, path)
                                      THEN overwritten \cup {path}
                                      ELSE overwritten
                  /\ script_pc' = "dump"
             ELSE /\ script_pc' = "crashed"
                  /\ UNCHANGED << fs, overwritten >>
    /\ UNCHANGED << cwd, config, simulated, restarts >>
    /\ UNCHANGED << simvars, objvars, pvars, avars, evars, ivars, rvars,
                    tvars >>

\* pickle.dump(self, handle, ...) has written the whole object; the with
\* block closes the file and the loop goes on
DumpResultFile ==
    /\ script_pc = "dump"
    /\ fs' = [fs EXCEPT ![store_path(cwd, config)] = "complete"]
    /\ config' = config + 1
    /\ script_pc' = "check"
    /\ UNCHANGED << cwd, simulated, overwritten, restarts >>
    /\ UNCHANGED << simvars, objvars, pvars, avars, evars, ivars, rvars,
                    tvars >>

\* the running script is interrupted; what it has written so far stays
InterruptScript ==
    /\ script_pc \in {"check", "simulate", "store", "dump"}
    /\ script_pc' = "stopped"
    /\ UNCHANGED << cwd, config, fs, simulated, overwritten, restarts >>
    /\ UNCHANGED << simvars, objvars, pvars, avars, evars, ivars, rvars,
                    tvars >>

\* the script is started again, in some working directory
RestartScript ==
    /\ script_pc \in {"stopped", "crashed"}
    /\ restarts < MaxRestarts
    /\ restarts' = restarts + 1
    /\ cwd' \in Dirs
    /\ config' = 1
    /\ script_pc' = "check"
    /\ UNCHANGED << fs, simulated, overwritten >>
    /\ UNCHANGED << simvars, objvars, pvars, avars, evars, ivars, rvars,
                    tvars >>

NextExperiment ==
    \/ CheckExists
    \/ SimulateConfig
    \/ OpenResultFile
    \/ DumpResultFile
    \/ InterruptScript
    \/ RestartScript

SpecExperiment == InitExperiment /\ [][NextExperiment]_vars

\* ============================================================ claims, part 5

\* C26 (as claimed): with continue_where_stopped = True a configuration
\* whose result file exists is never simulated again and its file is never
\* overwritten; a configuration without a file is simulated to the end and
\* stored under exactly the path of the existence check; so a script that
\* runs to its end, after any interruptions and restarts, leaves one result
\* file per configuration, whole, at the checked paths and nowhere else.
C26_ResumeSkipsAndStores ==
    /\ overwritten = {}
    /\ script_pc # "crashed"
    /\ (script_pc = "dump") => (store_path(cwd, config) = file_path(config))
    /\ \A p \in Paths :
          (p[2] # 0 /\ exists(fs, p)) => p = file_path(p[2])
    /\ (script_pc = "simulate") => ~exists(fs, file_path(config))
    /\ (script_pc = "finished") =>
          \A c \in Configs : fs[file_path(c)] = "complete"

\* ====================================================================
\* Part 6: RuleBased.select_parameters
\* ====================================================================
\* A parameter is kept in units of 1 / Den: 0 is 0 and Den is 1.

ParamIndex == 1 .. MaxParams

\* parameter vectors a stored solution may hold: on the bounds, below 0,
\* above 1, and mixed
ParamVectors ==
    { [i \in ParamIndex |-> 0],
      [i \in ParamIndex |-> Den],
      [i \in ParamIndex |-> -1],
      [i \in ParamIndex |-> Den + 1],
      [i \in ParamIndex |-> IF i = 1 THEN -1 ELSE 1],
      [i \in ParamIndex |-> IF i = 1 THEN Den + 1 ELSE Den - 1] }

\* solutions the archive may have been given before the controller runs
RuleCandidates ==
    [parameters : ParamVectors, descriptor : Descriptors, fitness : {0}]

EmptyArchive == [c \in Cells |-> << >>]

\* the archives reached from the empty one by at most two insert calls
RuleArchives(cap, mode) ==
    LET one == {insert(EmptyArchive, cap, mode, c).archive : c \in RuleCandidates}
        two == UNION {{insert(a, cap, mode, c).archive : c \in RuleCandidates}
                        : a \in one}
    IN  {EmptyArchive} \cup one \cup two

\* pitch differences the controller may compute, in units of pi / 2
Pitches == {-1, 0, 1}

\* roll = 0; features = np.array([roll, pitch, yaw])
features_of(pitch) == << 0, pitch >>

\* np.any(parameters>1) or np.any(parameters<0)
out_of_bounds(parameters) ==
    \E i \in DOMAIN parameters : parameters[i] > Den \/ parameters[i] < 0

\* a clip that leaves the lower bound out
np_clip_upper(a, a_min, a_max) ==
    [i \in DOMAIN a |-> IF a[i] > a_max THEN a_max ELSE a[i]]

\* np.clip(a, a_min, a_max): a new array
np_clip(a, a_min, a_max) ==
    [i \in DOMAIN a |->
        IF a[i] < a_min THEN a_min ELSE IF a[i] > a_max THEN a_max ELSE a[i]]

\* parameters = sol.parameters
\* if np.any(parameters>1) or np.any(parameters<0):
\*     parameters = np.clip(parameters, 0, 1)
clipped(parameters) ==
    IF out_of_bounds(parameters) THEN np_clip(parameters, 0, Den)
                                 ELSE parameters

\* sol.parameters after the call: np.clip builds a new array and the name
\* parameters is bound to it, nothing is stored into the solution
stored_after(parameters) == parameters

RuleRest ==
    /\ SimUnused
    /\ ObjNew
    /\ ParamUnused
    /\ EpisodeUnused
    /\ NotInterrupted
    /\ ExperimentUnused

\* controller = RuleBased(archive) with an archive of at most two solutions
InitRule ==
    /\ RuleRest
    /\ TaskUnused
    /\ a_state = "ready"
    /\ max_items_per_bin = 1
    /\ optimisation \in Optimisations
    /\ archive \in RuleArchives(max_items_per_bin, optimisation)
    /\ n_inserts = 0
    /\ last_insert = NoInsert
    /\ closest = NoResult
    /\ r_pc = "ready"
    /\ r_exc = "none"
    /\ returned = NoReturn

\* select_parameters, lines 85-103
\* sol = self._archive.get_closest_solutions(feature=features, k=1)[0][0]
\* raises IndexError when the returned list is empty
SelectParameters ==
    /\ r_pc = "ready"
    /\ \E pitch \in Pitches :
          \E r \in closest_cells(archive, features_of(pitch), 1) :
              /\ closest' = [feature |-> features_of(pitch),
                             k       |-> 1,
                             cells   |-> r,
                             result  |-> [i \in 1 .. Len(r) |-> archive[r[i]]]]
              /\ IF Len(r) = 0
                   THEN /\ r_pc' = "raised"
                        /\ r_exc' = "IndexError"
                        /\ UNCHANGED << returned, archive >>
                   ELSE LET sol == archive[r[1]][1]
                        IN  /\ returned' =
                                  [parameters |-> clipped(sol.parameters),
                                   features   |-> features_of(pitch)]
                            /\ archive' =
                                  [archive EXCEPT ![r[1]][1].parameters =
                                      stored_after(sol.parameters)]
                            /\ r_pc' = "returned"
                            /\ r_exc' = r_exc
    /\ UNCHANGED << a_state, max_items_per_bin, optimisation, n_inserts,
                    last_insert >>
    /\ UNCHANGED << simvars, objvars, pvars, evars, ivars, xvars, tvars >>

NextRule ==
    \/ SelectParameters

SpecRule == InitRule /\ [][NextRule]_vars

\* ============================================================ claims, part 6

\* the parameters of the solution select_parameters retrieved, as they were
\* stored when get_closest_solutions answered
Retrieved == closest.result[1][1].parameters

\* C27: every component of the vector select_parameters returns lies in
\* [0, 1] whatever the retrieved solution stores: a component below 0 comes
\* back as 0, one above 1 as 1, one in range unchanged; the stored solution
\* is not modified.
C27_ReturnedWithinUnitRange ==
    (r_pc = "returned") =>
        /\ DOMAIN returned.parameters = DOMAIN Retrieved
        /\ \A i \in DOMAIN Retrieved :
              /\ 0 <= returned.parameters[i]
              /\ returned.parameters[i] <= Den
              /\ (Retrieved[i] < 0) => returned.parameters[i] = 0
              /\ (Retrieved[i] > Den) => returned.parameters[i] = Den
              /\ (0 <= Retrieved[i] /\ Retrieved[i] <= Den)
                    => returned.parameters[i] = Retrieved[i]
        /\ archive[closest.cells[1]] = closest.result[1]

\* C27 witness: the retrieved solution stores a component below 0 next to
\* one in range, and the call has returned 0 for the first and the second
\* unchanged.
C27_Witness ==
    /\ r_pc = "returned"
    /\ Retrieved[1] = -1
    /\ Retrieved[2] = 1
    /\ returned.parameters[1] = 0
    /\ returned.parameters[2] = 1
    /\ archive[closest.cells[1]][1].parameters[1] = -1

\* C28 (as claimed): select_parameters returns a parameter vector together
\* with the query features (roll fixed to 0) for every archive state in
\* which get_closest_solutions answers without error, the archive with no
\* occupied cell included.
C28_ReturnsForEveryArchive ==
    (closest # NoResult) =>
        /\ r_pc = "returned"
        /\ r_exc = "none"
        /\ returned # NoReturn
        /\ returned.features = closest.feature
        /\ returned.features[1] = 0

\* ====================================================================
\* Part 7: MoveTask, the reward of task/move_to_target.py
\* ====================================================================
\* Positions are points of a line.

Positions == (-MaxPos) .. MaxPos

\* randomize_target_location(distance_from_origin=...): a point at the
\* configured distance from the origin
Targets == {-MaxPos, MaxPos}

\* initial_position = np.array([0.0, 0.0, 10 * torso_radius]), on the line
InitialPosition == 0

\* self._previous_distance_to_target = None; a distance is never negative
None == -1

\* np.linalg.norm(morphology_position - target_position)
Distance(a, b) == IF a >= b THEN a - b ELSE b - a

\* _get_distance_to_target(physics)
distance_to_target(tk) == Distance(tk.position, tk.target)

\* the baseline taken first, before the target and the pose are set
initialize_episode_baseline_first(tk, new_target) ==
    LET based  == [tk EXCEPT !.previous = distance_to_target(tk)]
        placed == [based EXCEPT !.target = new_target]
    IN  [placed EXCEPT !.position = InitialPosition]

\* initialize_episode: randomize_target_location, then
\* _initialize_morphology_pose, then the baseline
initialize_episode(tk, new_target) ==
    LET placed == [tk EXCEPT !.target = new_target]
        posed  == [placed EXCEPT !.position = InitialPosition]
    IN  [posed EXCEPT !.previous = distance_to_target(posed)]

\* a get_reward that leaves the baseline where it was
get_reward_keeps_baseline(tk) ==
    [task   |-> tk,
     reward |-> tk.previous - distance_to_target(tk)]

\* get_reward: the task after the call and the returned reward
get_reward(tk) ==
    [task   |-> [tk EXCEPT !.previous = distance_to_target(tk)],
     reward |-> tk.previous - distance_to_target(tk)]

RECURSIVE Sum(_)
Sum(seq) == IF seq = << >> THEN 0 ELSE Head(seq) + Sum(Tail(seq))

TaskRest ==
    /\ SimUnused
    /\ ObjNew
    /\ ParamUnused
    /\ ArchiveUnused
    /\ EpisodeUnused
    /\ NotInterrupted
    /\ ExperimentUnused
    /\ RuleUnused

\* MoveTask.__init__: the arena holds a target, the morphology is attached
\* somewhere, and there is no baseline
InitTask ==
    /\ TaskRest
    /\ t_pc = "new"
    /\ task \in [target : Targets, position : Positions, previous : {None}]
    /\ rewards = << >>
    /\ start_distance = 0
    /\ episodes = 0

\* initialize_episode(physics, random_state)
InitializeEpisode ==
    /\ t_pc \in {"new", "ready", "moved", "rewarded"}
    /\ episodes < MaxEpisodes
    /\ \E new_target \in Targets :
          /\ task' = initialize_episode(task, new_target)
          /\ start_distance' = Distance(InitialPosition, new_target)
    /\ rewards' = << >>
    /\ episodes' = episodes + 1
    /\ t_pc' = "ready"
    /\ UNCHANGED << simvars, objvars, pvars, avars, evars, ivars, xvars,
                    rvars >>

\* a physics step moves the morphology
MovePhysics ==
    /\ t_pc \in {"new", "ready", "moved", "rewarded"}
    /\ \E to \in Positions :
          /\ to # task.position
          /\ task' = [task EXCEPT !.position = to]
    /\ t_pc' = IF t_pc = "new" THEN "new" ELSE "moved"
    /\ UNCHANGED << rewards, start_distance, episodes >>
    /\ UNCHANGED << simvars, objvars, pvars, avars, evars, ivars, xvars,
                    rvars >>

\* get_reward(physics); None - float raises TypeError
GetReward ==
    /\ t_pc \in {"new", "ready", "moved", "rewarded"}
    /\ Len(rewards) < MaxRewards
    /\ IF task.previous = None
         THEN /\ t_pc' = "raised"
              /\ UNCHANGED << task, rewards >>
         ELSE /\ task' = get_reward(task).task
              /\ rewards' = Append(rewards, get_reward(task).reward)
              /\ t_pc' = "rewarded"
    /\ UNCHANGED << start_distance, episodes >>
    /\ UNCHANGED << simvars, objvars, pvars, avars, evars, ivars, xvars,
                    rvars >>

NextTask ==
    \/ InitializeEpisode
    \/ MovePhysics
    \/ GetReward

SpecTask == InitTask /\ [][NextTask]_vars

\* ============================================================ claims, part 7

\* C29: after every get_reward call the stored previous distance equals the
\* current distance to the target, so the rewards returned since
\* initialize_episode add up to the distance at the start of the episode
\* minus the current distance, for any sequence of positions.
C29_RewardsTelescope ==
    (t_pc = "rewarded") =>
        /\ task.previous = Distance(task.position, task.target)
        /\ Sum(rewards) = start_distance - Distance(task.position, task.target)

\* C29 witness: two rewards of different sign have been returned in one
\* episode, the morphology having moved towards the target and back past
\* its starting point.
C29_Witness ==
    /\ t_pc = "rewarded"
    /\ Len(rewards) = 2
    /\ rewards[1] > 0
    /\ rewards[2] < 0
    /\ Sum(rewards) < 0

\* C30: initialize_episode sets the baseline after the target has been
\* re-randomized and the pose reset, so the first get_reward of every
\* episode is measured against that episode's own starting distance, never
\* against the last distance of the previous episode; once
\* initialize_episode has run get_reward never meets an unset baseline.
C30_BaselineOfOwnEpisode ==
    /\ (t_pc = "ready") =>
          /\ task.position = InitialPosition
          /\ task.previous = Distance(InitialPosition, task.target)
    /\ (t_pc = "rewarded" /\ Len(rewards) = 1) =>
          rewards[1] = Distance(InitialPosition, task.target)
                          - Distance(task.position, task.target)
    /\ (episodes >= 1) => (task.previous # None /\ t_pc # "raised")

\* C30 witness: the first reward of the second episode has been returned;
\* that episode started at distance MaxPos from its target and the reward is
\* measured from there.
C30_Witness ==
    /\ episodes = 2
    /\ t_pc = "rewarded"
    /\ Len(rewards) = 1
    /\ task.position = task.target
    /\ rewards[1] = MaxPos

====
